---- MODULE Spec2Model ----
(***************************************************************************)
(* SkipList<int> of src/src/SkipList.h as a state machine over an explicit *)
(* node heap.  A node is a heap cell with the fields data, left, right and *)
(* down; pointers are cell numbers and Null is nullptr.  delete_node only  *)
(* removes a cell from the set of live cells, so a pointer that outlives   *)
(* its node keeps its value: dereferencing it is a use after free, whose   *)
(* outcome is chosen nondeterministically between a crash and a read of    *)
(* the cell's stale contents.                                              *)
(***************************************************************************)
EXTENDS Integers, FiniteSets, Sequences, TLC

\* ---------------------------------------------------------------- bounds
\* Model bound on MAX_LVL (DEFAULT_MAX_LVL is 16 in the source).
MAX_LVL == 2
\* The same bound in the runs that need a tower two levels above the top.
TALL_LVL == 3
\* Number of distinct element values the callers use.
NumValues == 3
\* Number of elements a run erases through an iterator.
MaxIterErases == 1
\* A run is followed until this many of its operations have read freed
\* memory and gone on.
MaxSurvived == 1
\* Move assignments are explored while no more nodes than this have leaked.
MaxLeaked == 0
\* Number of states of the level generator (std::mt19937 has 2^19937 - 1).
GenPeriod == 4
\* Calls of random_level() per container that a run with the generator's
\* steps follows.
MaxDraws == 1

\* The int values inserted and looked up: negative, zero (= T()) and positive.
Values == {v - 2 : v \in 1..NumValues}
\* The cells of one full container: every value at every level plus a
\* sentinel pair per level.
ListCells == 2 * MAX_LVL + MAX_LVL * NumValues
\* Heap capacity: room for two full containers.
NumNodes == 2 * ListCells
Nodes == 1..NumNodes
Null == 0
Ptrs == Nodes \cup {Null}
\* No walk over distinct cells is longer than the heap.
Fuel == NumNodes + 1

\* ------------------------------------------------------------- variables
VARIABLES heap, live, sl, status, present, last, iterErases, survived, rng, max_lvl
vars == <<heap, live, sl, status, present, last, iterErases, survived, rng, max_lvl>>

\* The cells of one full container: a sentinel pair and a node of every value
\* on each of its max_lvl levels.
FullCells == 2 * max_lvl + max_lvl * NumValues

\* The container objects of a run: "a" exists from the start, "b" once a
\* constructor has made it.
ListOrder == <<"a", "b">>
Lists == {ListOrder[i] : i \in 1..Len(ListOrder)}

\* Faults met while executing an operation, ordered by severity.
NoFault == "none"
Stale == "use_after_free"
NullDeref == "null_dereference"
Hang == "endless_loop"
StaleLoop == "endless_loop_over_freed_nodes"
\* Not a fault of the program: the operation needs more cells than Nodes has.
NoRoom == "out_of_cells"
\* A function with a return type ends without a return statement.
NoReturn == "no_return_statement"
Sev(f) == CASE f = NoFault -> 0 [] f = Stale -> 1 [] f = NullDeref -> 2
            [] f = Hang -> 3 [] f = StaleLoop -> 4 [] OTHER -> 5
Fatal(f) == Sev(f) >= 2
Max2(a, b) == IF Sev(a) >= Sev(b) THEN a ELSE b
Max3(a, b, c) == Max2(a, Max2(b, c))

\* The result r of a later step, with the fault f met before it.
withFault(r, f) == [r EXCEPT !.f = Max2(f, @)]

\* The element of a set of one element.
Only(S) == CHOOSE x \in S : TRUE

\* SkipNode(): data(T()), left, right, down = nullptr
BlankNode == [data |-> 0, left |-> Null, right |-> Null, down |-> Null]

\* _comp: std::less<> on int
comp(a, b) == a < b

\* The fault of dereferencing pointer n.
F(lv, n) == IF n = Null THEN NullDeref ELSE IF n \in lv THEN NoFault ELSE Stale

\* The container c together with the heap it lives in; the allocator serves
\* the cells 1..cap, the cells of one full container per constructed object.
M(c) == [heap |-> heap, live |-> live, head |-> sl[c].head, tail |-> sl[c].tail,
         cml |-> sl[c].current_max_level, size |-> sl[c].size, reuse |-> FALSE,
         cap |-> FullCells * Cardinality({x \in Lists : sl[x].head # Null})]

\* ------------------------------------------------------ node allocation
\* The free cells that some pointer still leads to.
Dangling(m) ==
  (({m.head, m.tail}
    \cup UNION {{m.heap[k].left, m.heap[k].right, m.heap[k].down} : k \in Nodes})
   \cap Nodes) \ m.live

\* _node_alloc.allocate + construct, fields reset.  The allocator may hand
\* out a just freed cell again or a fresh one: with m.reuse it prefers the
\* lowest freed cell that a pointer still leads to, else the lowest other one.
create_node(m, value) ==
  LET free == (1..m.cap) \ m.live
      dang == Dangling(m)
      pool == IF m.reuse /\ dang # {} THEN dang
              ELSE IF free \ dang # {} THEN free \ dang ELSE free
      n == CHOOSE x \in pool : \A y \in pool : x <= y
  IN [m |-> [m EXCEPT !.heap[n] = [BlankNode EXCEPT !.data = value],
                      !.live = @ \cup {n}],
      node |-> n]

\* destroy + deallocate; deleting a cell that is not live is a double free.
delete_node(m, n) ==
  IF n = Null THEN [m |-> m, f |-> NoFault]
  ELSE [m |-> [m EXCEPT !.live = @ \ {n}], f |-> F(m.live, n)]

\* ---------------------------------------------------- sentinel access
RECURSIVE SentinelDown(_, _, _, _, _)
SentinelDown(h, lv, s, current_level, level) ==
  IF level >= current_level THEN [node |-> s, f |-> NoFault]
  ELSE IF s = Null THEN [node |-> Null, f |-> NullDeref]
  ELSE IF h[s].down = Null THEN [node |-> s, f |-> F(lv, s)]
  ELSE LET r == SentinelDown(h, lv, h[s].down, current_level - 1, level)
       IN [node |-> r.node, f |-> Max2(F(lv, s), r.f)]

getHeadAtLevel(m, level) ==
  IF level < 1 \/ level > m.cml THEN [node |-> Null, f |-> NoFault]
  ELSE SentinelDown(m.heap, m.live, m.head, m.cml, level)

getTailAtLevel(m, level) ==
  IF level < 1 \/ level > m.cml THEN [node |-> Null, f |-> NoFault]
  ELSE SentinelDown(m.heap, m.live, m.tail, m.cml, level)

\* while (node->down) node = node->down;
RECURSIVE Bottom(_, _, _, _)
Bottom(h, lv, n, fuel) ==
  IF n = Null THEN [node |-> Null, f |-> NullDeref]
  ELSE IF h[n].down = Null THEN [node |-> n, f |-> F(lv, n)]
  ELSE IF fuel = 0 THEN [node |-> n, f |-> Hang]
  ELSE LET r == Bottom(h, lv, h[n].down, fuel - 1)
       IN [node |-> r.node, f |-> Max2(F(lv, n), r.f)]

begin(m) ==
  LET b == Bottom(m.heap, m.live, m.head, Fuel)
  IN IF Fatal(b.f) THEN [node |-> Null, f |-> b.f]
     ELSE [node |-> m.heap[b.node].right, f |-> b.f]

end(m) == Bottom(m.heap, m.live, m.tail, Fuel)

\* ------------------------------------------------------------ findNode
\* while (current_node->right != current_tail &&
\*        _comp(current_node->right->data, key)) current_node = current_node->right;
RECURSIVE AdvanceRight(_, _, _, _, _, _)
AdvanceRight(h, lv, cur, tl, key, fuel) ==
  IF cur = Null THEN [node |-> Null, f |-> NullDeref]
  ELSE LET r == h[cur].right
           fc == F(lv, cur)
       IN IF r = tl THEN [node |-> cur, f |-> fc]
          ELSE IF r = Null THEN [node |-> cur, f |-> NullDeref]
          ELSE IF ~comp(h[r].data, key) THEN [node |-> cur, f |-> Max2(fc, F(lv, r))]
          ELSE IF fuel = 0 THEN [node |-> cur, f |-> Hang]
          ELSE LET a == AdvanceRight(h, lv, r, tl, key, fuel - 1)
               IN [node |-> a.node, f |-> Max3(fc, F(lv, r), a.f)]

RECURSIVE findLevels(_, _, _, _)
findLevels(m, cur, l, key) ==
  IF l < 1 THEN [node |-> Null, f |-> NoFault]
  ELSE LET t == getTailAtLevel(m, l)
           a == AdvanceRight(m.heap, m.live, cur, t.node, key, Fuel)
           fa == Max2(t.f, a.f)
       IN IF Fatal(fa) THEN [node |-> Null, f |-> fa]
          ELSE LET r == m.heap[a.node].right
               IN IF r # t.node /\ ~comp(key, m.heap[r].data) /\ ~comp(m.heap[r].data, key)
                  THEN [node |-> r, f |-> fa]
                  ELSE LET d == findLevels(m, m.heap[a.node].down, l - 1, key)
                       IN [node |-> d.node, f |-> Max2(fa, d.f)]

findNode(m, key) ==
  IF m.head = Null THEN [node |-> Null, f |-> NoFault]
  ELSE IF m.heap[m.head].right = Null THEN [node |-> Null, f |-> F(m.live, m.head)]
  ELSE findLevels(m, m.head, m.cml, key)

contains(m, value) ==
  LET r == findNode(m, value) IN [ret |-> r.node # Null, f |-> r.f]

find(m, key) ==
  LET r == findNode(m, key)
  IN IF r.node # Null THEN r
     ELSE LET e == end(m) IN [node |-> e.node, f |-> Max2(r.f, e.f)]

\* ------------------------------------------------------- findLowerNode
RECURSIVE LowerWalk(_, _, _, _, _, _)
LowerWalk(h, lv, cur, tl, data, fuel) ==
  IF cur = Null \/ cur = tl THEN [node |-> cur, f |-> NoFault]
  ELSE IF ~comp(h[cur].data, data) THEN [node |-> cur, f |-> F(lv, cur)]
  ELSE IF fuel = 0 THEN [node |-> cur, f |-> Hang]
  ELSE LET r == LowerWalk(h, lv, h[cur].right, tl, data, fuel - 1)
       IN [node |-> r.node, f |-> Max2(F(lv, cur), r.f)]

findLowerNode(m, data, level) ==
  LET hd == getHeadAtLevel(m, level)
  IN IF hd.node = Null \/ Fatal(hd.f) THEN [node |-> Null, f |-> Max2(hd.f, NullDeref)]
     ELSE LET current == m.heap[hd.node].right
              fh == Max2(hd.f, F(m.live, hd.node))
          IN IF current = Null THEN [node |-> Null, f |-> fh]
             ELSE IF m.heap[current].right = Null
                  THEN [node |-> Null, f |-> Max2(fh, F(m.live, current))]
             ELSE LET tl == getTailAtLevel(m, level)
                      w == LowerWalk(m.heap, m.live, current, tl.node, data, Fuel)
                  IN [node |-> w.node, f |-> Max3(fh, tl.f, w.f)]

\* -------------------------------------------------------------- insert
\* The states of the generator `gen` of random_level(), and what it is before
\* the first call has run the static initialisers.
GenStates == 0..(GenPeriod - 1)
Unseeded == GenPeriod

\* dist(gen): the outcome drawn in generator state g, and the state after.
Success(g) == g # 0
Advance(g) == (g + 1) % GenPeriod

\* Line 703 without the test of level against MAX_LVL.
drawMore_uncapped(b, level) == b

\* Line 703: dist(gen) && level < MAX_LVL, b being what dist(gen) gave.
drawMore(b, level) == b /\ level < max_lvl

\* Lines 702-706: the loop of random_level() from generator state g, run
\* without interruption; dist(gen) is drawn before level is tested.
RECURSIVE drawLoop(_, _)
drawLoop(g, level) ==
  IF drawMore(Success(g), level)
  THEN drawLoop(Advance(g), level + 1)
  ELSE [level |-> level, gen |-> Advance(g)]

\* int level = random_level(): 1 plus the number of leading successes of a
\* Bernoulli(0.5) draw, stopped at MAX_LVL; what level comes depends on the
\* generator's state, and every level of the range can come.
random_level == {drawLoop(g, 1).level : g \in GenStates}

\* Lines 316-325, the inner while of the update search.
RECURSIVE InsAdvance(_, _, _, _, _, _)
InsAdvance(h, lv, cur, tl, key, fuel) ==
  IF cur = Null THEN [node |-> Null, f |-> NoFault]
  ELSE LET r == h[cur].right
           fc == F(lv, cur)
       IN IF r = Null \/ r = tl THEN [node |-> cur, f |-> fc]
          ELSE IF ~comp(h[r].data, key) THEN [node |-> cur, f |-> Max2(fc, F(lv, r))]
          ELSE IF fuel = 0 THEN [node |-> cur, f |-> Hang]
          ELSE LET a == InsAdvance(h, lv, r, tl, key, fuel - 1)
               IN [node |-> a.node, f |-> Max3(fc, F(lv, r), a.f)]

\* Lines 314-325: update[l] for l = current_max_level .. 1.
RECURSIVE updateWalk(_, _, _, _, _)
updateWalk(m, cur, l, key, upd) ==
  IF l < 1 THEN [update |-> upd, f |-> NoFault]
  ELSE LET t == getTailAtLevel(m, l)
           a == InsAdvance(m.heap, m.live, cur, t.node, key, Fuel)
           fa == Max2(t.f, a.f)
       IN IF Fatal(fa) THEN [update |-> upd, f |-> fa]
          ELSE IF a.node = Null THEN [update |-> upd, f |-> NullDeref]
          ELSE LET r == updateWalk(m, m.heap[a.node].down, l - 1, key,
                                   [upd EXCEPT ![l] = a.node])
               IN [update |-> r.update, f |-> Max2(fa, r.f)]

\* Lines 327-348: a new sentinel pair above the top for every new level.
RECURSIVE growLevels(_, _, _, _)
growLevels(m, upd, l, level) ==
  IF l > level THEN [m |-> m, update |-> upd]
  ELSE LET nh == create_node(m, BlankNode.data)
           nt == create_node(nh.m, BlankNode.data)
           m2 == [nt.m EXCEPT !.heap[nh.node].right = nt.node,
                              !.heap[nt.node].left = nh.node,
                              !.heap[nh.node].down = m.head,
                              !.heap[nt.node].down = m.tail,
                              !.head = nh.node,
                              !.tail = nt.node]
       IN growLevels(m2, [upd EXCEPT ![l] = nh.node], l + 1, level)

\* A splice that would forget the left reference of the node to the right.
linkNode_rightOnly(m, n, u, lower_node) ==
  LET r == m.heap[u].right
      h1 == [m.heap EXCEPT ![n].right = r, ![n].left = u]
  IN [m EXCEPT !.heap = [h1 EXCEPT ![u].right = n, ![n].down = lower_node]]

\* Lines 357-367: node n goes right of update node u, above lower_node.
linkNode(m, n, u, lower_node) ==
  LET r == m.heap[u].right
      h1 == [m.heap EXCEPT ![n].right = r, ![n].left = u]
      h2 == IF r # Null THEN [h1 EXCEPT ![r].left = n] ELSE h1
  IN [m EXCEPT !.heap = [h2 EXCEPT ![u].right = n, ![n].down = lower_node]]

\* Lines 369-374: the links around the new node must close.
linkBroken(h, n) ==
  \/ h[h[n].left].right # n
  \/ (h[n].right # Null /\ h[h[n].right].left # n)

\* Lines 350-377: one node per level, bottom up, right of update[l].
RECURSIVE spliceLevels(_, _, _, _, _, _)
spliceLevels(m, upd, l, level, idata, lower_node) ==
  IF l > level THEN [m |-> m, f |-> NoFault, err |-> "none"]
  ELSE LET c == create_node(m, idata)
       IN IF upd[l] = Null THEN [m |-> c.m, f |-> NoFault, err |-> "runtime_error"]
          ELSE LET m5 == linkNode(c.m, c.node, upd[l], lower_node)
                   fl == IF c.m.heap[upd[l]].right # Null
                         THEN Max2(F(c.m.live, upd[l]), F(c.m.live, c.m.heap[upd[l]].right))
                         ELSE F(c.m.live, upd[l])
               IN IF linkBroken(m5.heap, c.node)
                  THEN [m |-> m5, f |-> fl, err |-> "runtime_error"]
                  ELSE LET rest == spliceLevels(m5, upd, l + 1, level, idata, c.node)
                       IN [m |-> rest.m, f |-> Max2(fl, rest.f), err |-> rest.err]

\* Cells the insert of a tower of `level` levels allocates.
InsertNeeds(m, level) ==
  level + (IF level > m.cml THEN 2 * (level - m.cml) ELSE 0)

\* Lines 327-348 with the assignment of current_max_level.
raiseLevels(m, upd, level) ==
  IF level > m.cml
  THEN LET gl == growLevels(m, upd, m.cml + 1, level)
       IN [m |-> [gl.m EXCEPT !.cml = level], update |-> gl.update]
  ELSE [m |-> m, update |-> upd]

\* Lines 350-380: the splice, ++_size and the returned iterator.
insertTower(g, idata, level, f0) ==
  LET s == spliceLevels(g.m, g.update, 1, level, idata, Null)
  IN IF s.err # "none" \/ Fatal(s.f)
     THEN [m |-> s.m, it |-> Null, inserted |-> FALSE, f |-> Max2(f0, s.f), err |-> s.err]
     ELSE LET rn == findLowerNode([s.m EXCEPT !.size = @ + 1], idata, 1)
          IN [m |-> [s.m EXCEPT !.size = @ + 1], it |-> rn.node, inserted |-> TRUE,
              f |-> Max3(f0, s.f, rn.f), err |-> "none"]

\* Lines 314-348: the update search, then the new levels.
insertAbsent(m, idata, level, f0) ==
  LET w == updateWalk(m, m.head, m.cml, idata, [l \in 1..max_lvl |-> Null])
  IN IF Fatal(w.f)
     THEN [m |-> m, it |-> Null, inserted |-> FALSE, f |-> Max2(f0, w.f), err |-> "none"]
     ELSE insertTower(raiseLevels(m, w.update, level), idata, level, Max2(f0, w.f))

insert(m, idata, level) ==
  LET dup == findNode(m, idata)
  IN IF Fatal(dup.f) \/ dup.node # Null
     THEN [m |-> m, it |-> dup.node, inserted |-> FALSE, f |-> dup.f, err |-> "none"]
     ELSE insertAbsent(m, idata, level, dup.f)

\* ------------------------------------------- insert, allocation failing
\* The levels insert has to add for a tower of `level` levels.
Grows(m, level) == IF level > m.cml THEN level - m.cml ELSE 0

\* Lines 329-346 when the k-th create_node of the grow loop throws: the
\* iterations before it are complete, head and tail moved up, and of its own
\* iteration new_head exists, unlinked, if it was new_tail that failed;
\* line 347, current_max_level = level, is not reached.
growFailing(m, upd, k) ==
  LET g == growLevels(m, upd, m.cml + 1, m.cml + ((k - 1) \div 2))
  IN IF k % 2 = 0 THEN create_node(g.m, BlankNode.data).m ELSE g.m

\* Lines 350-377 when the create_node of level j + 1 throws: the levels up
\* to j are spliced; ++_size is not reached.
spliceFailing(g, idata, j) == spliceLevels(g.m, g.update, 1, j, idata, Null)

insertFailingAt(m, w, idata, level, k) ==
  IF Fatal(w.f) THEN [m |-> m, f |-> w.f, err |-> "none"]
  ELSE IF k <= 2 * Grows(m, level)
       THEN [m |-> growFailing(m, w.update, k), f |-> w.f, err |-> "bad_alloc"]
  ELSE withFault([spliceFailing(raiseLevels(m, w.update, level), idata,
                                k - 2 * Grows(m, level) - 1)
                    EXCEPT !.err = IF @ = "none" THEN "bad_alloc" ELSE @],
                 w.f)

\* insert(idata) of a value that is not in the container, when the k-th
\* allocation of the call throws std::bad_alloc (create_node, line 670).
insertFailing(m, idata, level, k) ==
  Only({insertFailingAt(m, w, idata, level, k) :
          w \in {updateWalk(m, m.head, m.cml, idata, [l \in 1..max_lvl |-> Null])}})

\* ------------------------------------------------------------ validate
RECURSIVE validateWalk(_, _, _, _, _, _)
validateWalk(h, lv, node, tl, lvl, fuel) ==
  IF node = tl THEN [ok |-> TRUE, f |-> NoFault]
  ELSE IF node = Null THEN [ok |-> FALSE, f |-> NullDeref]
  ELSE IF fuel = 0 THEN [ok |-> FALSE, f |-> Hang]
  ELSE LET r == h[node].right
           fn == IF r # Null THEN Max2(F(lv, node), F(lv, r)) ELSE F(lv, node)
       IN IF r # Null /\ h[r].left # node THEN [ok |-> FALSE, f |-> fn]
          ELSE IF r # tl /\ r # Null /\ comp(h[r].data, h[node].data)
               THEN [ok |-> FALSE, f |-> fn]
          ELSE IF lvl > 1 /\ h[node].down = Null THEN [ok |-> FALSE, f |-> fn]
          ELSE LET w == validateWalk(h, lv, r, tl, lvl, fuel - 1)
               IN [ok |-> w.ok, f |-> Max2(fn, w.f)]

RECURSIVE validateLevels(_, _)
validateLevels(m, lvl) ==
  IF lvl > m.cml THEN [ok |-> TRUE, f |-> NoFault]
  ELSE LET hd == getHeadAtLevel(m, lvl)
           tl == getTailAtLevel(m, lvl)
           w == validateWalk(m.heap, m.live, hd.node, tl.node, lvl, Fuel)
           fw == Max3(hd.f, tl.f, w.f)
       IN IF Fatal(fw) \/ ~w.ok THEN [ok |-> FALSE, f |-> fw]
          ELSE LET rest == validateLevels(m, lvl + 1)
               IN [ok |-> rest.ok, f |-> Max2(fw, rest.f)]

validate(m) == validateLevels(m, 1)

\* ----------------------------------------------------------- eraseNode
RECURSIVE trimEmptyLevels(_)
trimEmptyLevels(m) ==
  IF m.cml <= 1 THEN [m |-> m, f |-> NoFault]
  ELSE IF m.head = Null THEN [m |-> m, f |-> NullDeref]
  ELSE IF m.heap[m.head].right # m.tail THEN [m |-> m, f |-> F(m.live, m.head)]
  ELSE IF m.tail = Null THEN [m |-> m, f |-> NullDeref]
  ELSE LET old_head == m.head
           old_tail == m.tail
           m1 == [m EXCEPT !.head = m.heap[old_head].down,
                           !.tail = m.heap[old_tail].down]
           fd == Max2(F(m.live, old_head), F(m.live, old_tail))
           d1 == delete_node(m1, old_head)
           d2 == delete_node(d1.m, old_tail)
           rest == trimEmptyLevels([d2.m EXCEPT !.cml = @ - 1])
       IN [m |-> rest.m, f |-> Max2(Max3(fd, d1.f, d2.f), rest.f)]

\* Lines 813-821: unlink and delete the node, then the node below it.
RECURSIVE eraseTower(_, _, _)
eraseTower(m, node, fuel) ==
  IF node = Null THEN [m |-> m, f |-> NoFault]
  ELSE IF fuel = 0 THEN [m |-> m, f |-> Hang]
  ELSE LET fn == F(m.live, node)
           next_level == m.heap[node].down
           l == m.heap[node].left
           fl == IF l # Null THEN F(m.live, l) ELSE NoFault
           m1 == IF l # Null THEN [m EXCEPT !.heap[l].right = m.heap[node].right] ELSE m
           r == m1.heap[node].right
           fr == IF r # Null THEN F(m.live, r) ELSE NoFault
           m2 == IF r # Null THEN [m1 EXCEPT !.heap[r].left = m1.heap[node].left] ELSE m1
           d == delete_node(m2, node)
           rest == eraseTower(d.m, next_level, fuel - 1)
       IN [m |-> rest.m, f |-> Max2(Max3(fn, fl, fr), Max2(d.f, rest.f))]

\* _size is a std::size_t: the model keeps its value as the signed residue
\* modulo 2^64, so that 0 - 1 is -1 (SIZE_MAX) and -1 + 1 is 0.
eraseNode(m, node) ==
  LET e == eraseTower(m, node, Fuel)
  IN IF Fatal(e.f) THEN [m |-> e.m, f |-> e.f]
     ELSE LET t == trimEmptyLevels([e.m EXCEPT !.size = @ - 1])
          IN IF Fatal(t.f) THEN [m |-> t.m, f |-> Max2(e.f, t.f)]
             ELSE [m |-> t.m, f |-> Max3(e.f, t.f, validate(t.m).f)]

\* erase(const K& value)
erase(m, value) ==
  LET fn == findNode(m, value)
  IN IF Fatal(fn.f) \/ fn.node = Null THEN [m |-> m, ret |-> FALSE, f |-> fn.f]
     ELSE LET e == eraseNode(m, fn.node)
          IN [m |-> e.m, ret |-> TRUE, f |-> Max2(fn.f, e.f)]

\* ------------------------------------------------- erase by iterator
\* for (auto curr = begin(); curr != end(); ++curr) if (curr == it) return true;
RECURSIVE iterWalk(_, _, _, _, _, _)
iterWalk(h, lv, curr, e, it, fuel) ==
  IF curr = e THEN [ret |-> FALSE, f |-> NoFault]
  ELSE IF curr = it THEN [ret |-> TRUE, f |-> NoFault]
  ELSE IF curr = Null \/ fuel = 0 THEN [ret |-> FALSE, f |-> Hang]
  ELSE LET w == iterWalk(h, lv, h[curr].right, e, it, fuel - 1)
       IN [ret |-> w.ret, f |-> Max2(F(lv, curr), w.f)]

\* validate_iterator without its walk: every iterator passes.
validate_iterator_skipped(m, it) == [ret |-> TRUE, f |-> NoFault]

validate_iterator(m, it) ==
  LET b == begin(m)
      e == end(m)
  IN IF Fatal(Max2(b.f, e.f)) THEN [ret |-> FALSE, f |-> Max2(b.f, e.f)]
     ELSE LET w == iterWalk(m.heap, m.live, b.node, e.node, it, Fuel)
          IN [ret |-> w.ret, f |-> Max3(b.f, e.f, w.f)]

\* iterator erase(iterator pos)
eraseIt(m, pos) ==
  LET e == end(m)
  IN IF Fatal(e.f) THEN [m |-> m, it |-> Null, f |-> e.f, err |-> "none"]
     ELSE IF pos = e.node THEN [m |-> m, it |-> Null, f |-> e.f, err |-> "out_of_range"]
     ELSE LET v == validate_iterator(m, pos)
              fv == Max2(e.f, v.f)
          IN IF Fatal(fv) THEN [m |-> m, it |-> Null, f |-> fv, err |-> "none"]
             ELSE IF ~v.ret THEN [m |-> m, it |-> Null, f |-> fv, err |-> "invalid_argument"]
             ELSE LET next == IF pos = Null THEN Null ELSE m.heap[pos].right
                      fp == IF pos = Null THEN NoFault ELSE F(m.live, pos)
                      en == eraseNode(m, pos)
                  IN [m |-> en.m, it |-> next, f |-> Max3(fv, fp, en.f), err |-> "none"]

\* --------------------------------------------------------------- clear
\* Lines 547-552: delete the row of nodes that starts at current_node.
RECURSIVE deleteRow(_, _, _)
deleteRow(m, current_node, fuel) ==
  IF current_node = Null THEN [m |-> m, f |-> NoFault]
  ELSE IF fuel = 0 THEN [m |-> m, f |-> Hang]
  ELSE LET next_node == m.heap[current_node].right
           d == delete_node(m, current_node)
           rest == deleteRow(d.m, next_node, fuel - 1)
       IN [m |-> rest.m, f |-> Max3(F(m.live, current_node), d.f, rest.f)]

\* current_level is never advanced (no current_level = current_level->down),
\* so once the top row is deleted the outer loop walks the same, now freed,
\* row again, and again: lines 554-559 are never reached.
clear(m) ==
  IF m.head = Null THEN [m |-> m, f |-> NoFault]
  ELSE LET d == deleteRow(m, m.head, Fuel)
       IN [m |-> d.m, f |-> Max2(d.f, StaleLoop)]

\* ---------------------------------------------------------- range erase
\* Lines 458-461: while (first != last) first = erase(first);
RECURSIVE eraseLoop(_, _, _, _, _)
eraseStep(m, e, first, last_, erased, fuel) ==
  IF e.err # "none" \/ Fatal(e.f)
  THEN [m |-> e.m, it |-> Null, f |-> e.f, err |-> e.err, erased |-> erased]
  ELSE withFault(eraseLoop(e.m, e.it, last_,
                           erased \cup (IF first = Null THEN {} ELSE {m.heap[first].data}),
                           fuel - 1),
                 e.f)

eraseLoop(m, first, last_, erased, fuel) ==
  IF first = last_ THEN [m |-> m, it |-> first, f |-> NoFault, err |-> "none", erased |-> erased]
  ELSE IF fuel = 0 THEN [m |-> m, it |-> first, f |-> Hang, err |-> "none", erased |-> erased]
  ELSE eraseStep(m, eraseIt(m, first), first, last_, erased, fuel)

\* Lines 454-457: the whole range goes through clear() first.
eraseAfterClear(c, first, last_, f0) ==
  IF Fatal(c.f)
  THEN [m |-> c.m, it |-> Null, f |-> Max2(f0, c.f), err |-> "none", erased |-> {}]
  ELSE withFault(eraseLoop(c.m, first, last_, {}, Fuel), Max2(f0, c.f))

\* iterator erase(const_iterator first, const_iterator last)
eraseRange(m, first, last_) ==
  LET b == begin(m)
      e == end(m)
  IN IF Fatal(b.f) \/ (first = b.node /\ Fatal(e.f))
     THEN [m |-> m, it |-> Null, f |-> Max2(b.f, IF first = b.node THEN e.f ELSE NoFault),
           err |-> "none", erased |-> {}]
     ELSE IF first = b.node /\ last_ = e.node
          THEN eraseAfterClear(clear(m), first, last_, Max2(b.f, e.f))
          ELSE withFault(eraseLoop(m, first, last_, {}, Fuel),
                         Max2(b.f, IF first = b.node THEN e.f ELSE NoFault))

\* ------------------------------------------------ lower / upper bound
RECURSIVE lowerLevels(_, _, _, _)
lowerLevels(m, node, lvl, key) ==
  LET t == getTailAtLevel(m, lvl)
      a == AdvanceRight(m.heap, m.live, node, t.node, key, Fuel)
      fa == Max2(t.f, a.f)
  IN IF Fatal(fa) THEN [node |-> Null, f |-> fa]
     ELSE IF lvl > 1
          THEN LET d == lowerLevels(m, m.heap[a.node].down, lvl - 1, key)
               IN [node |-> d.node, f |-> Max2(fa, d.f)]
          ELSE [node |-> m.heap[a.node].right, f |-> fa]

lower_bound(m, key) == lowerLevels(m, m.head, m.cml, key)

upper_bound(m, key) ==
  LET it == lower_bound(m, key)
      e == end(m)
      fe == Max2(it.f, e.f)
  IN IF Fatal(fe) \/ it.node = e.node THEN [node |-> it.node, f |-> fe]
     ELSE IF it.node = Null THEN [node |-> Null, f |-> NullDeref]
     ELSE IF ~comp(key, m.heap[it.node].data)
          THEN [node |-> m.heap[it.node].right, f |-> Max2(fe, F(m.live, it.node))]
          ELSE [node |-> it.node, f |-> Max2(fe, F(m.live, it.node))]

\* --------------------------------------------------------------- merge
\* The heap of m seen through the members mem of another container.
As(m, mem) == [m EXCEPT !.head = mem.head, !.tail = mem.tail,
                        !.cml = mem.current_max_level, !.size = mem.size]

\* The members of container m.
Members(m) == [head |-> m.head, tail |-> m.tail, current_max_level |-> m.cml,
               size |-> m.size]

\* Lines 405-414: the loop of merge.  m is *this, other the members of the
\* argument, levels[k] what random_level() gives the k-th insert.  The
\* result holds *this in m and the argument's members in other.
RECURSIVE mergeLoop(_, _, _, _, _, _, _)
Merged(m, other, f, err, moved) ==
  [m |-> m, other |-> other, f |-> f, err |-> err, moved |-> moved]

\* Line 410: it = other.erase(it); er is what the erase returned.
mergeErasure(ins, er, levels, k, moved, fuel) ==
  IF er.err # "none" \/ Fatal(er.f)
  THEN Merged(As(er.m, Members(ins.m)), Members(er.m), Max2(ins.f, er.f), er.err, moved)
  ELSE Only({withFault(mergeLoop(m, other, er.it, levels, k + 1, moved, fuel - 1),
                       Max2(ins.f, er.f)) :
               m \in {As(er.m, Members(ins.m))}, other \in {Members(er.m)}})

mergeErased(ins, e, levels, k, moved, fuel) ==
  Only({mergeErasure(ins, er, levels, k, moved, fuel) : er \in {e}})

\* Line 409: insert(std::move(*it)); ins is what the insert returned.
mergeMove(ins, other, it, levels, k, moved, fuel) ==
  IF ins.err # "none" \/ Fatal(ins.f)
  THEN Merged(ins.m, other, ins.f, ins.err, moved)
  ELSE Only({mergeErased(ins, eraseIt(o, it), levels, k, moved, fuel) :
               o \in {As(ins.m, other)}})

\* Lines 407-414: the loop body; c is contains(*it), fi the faults so far.
mergeElement(m, other, it, levels, k, moved, fuel, c, fi) ==
  IF Fatal(c.f) THEN Merged(m, other, Max2(fi, c.f), "none", moved)
  ELSE IF c.ret
       THEN withFault(mergeLoop(m, other, m.heap[it].right, levels, k, moved, fuel - 1),
                      Max2(fi, c.f))
  ELSE IF k > Len(levels) \/ Cardinality((1..m.cap) \ m.live) < InsertNeeds(m, levels[k])
       THEN Merged(m, other, NoRoom, "none", moved)
  ELSE Only({withFault(mergeMove(ins, other, it, levels, k,
                                 moved \cup {m.heap[it].data}, fuel),
                       Max2(fi, c.f)) :
               ins \in {insert(m, m.heap[it].data, levels[k])}})

\* Line 405: it != other.end(); e is other.end().
mergeTested(m, other, it, levels, k, moved, fuel, e) ==
  IF Fatal(e.f) \/ it = e.node THEN Merged(m, other, e.f, "none", moved)
  ELSE IF it = Null THEN Merged(m, other, NullDeref, "none", moved)
  ELSE IF fuel = 0 THEN Merged(m, other, Hang, "none", moved)
  ELSE Only({mergeElement(m, other, it, levels, k, moved, fuel, c,
                          Max2(e.f, F(m.live, it))) :
               c \in {contains(m, m.heap[it].data)}})

mergeTest(m, other, it, levels, k, moved, fuel, e0) ==
  Only({mergeTested(m, other, it, levels, k, moved, fuel, e) : e \in {e0}})

mergeLoop(m, other, it, levels, k, moved, fuel) ==
  Only({mergeTest(m, other, it, levels, k, moved, fuel, end(o)) :
          o \in {As(m, other)}})

\* void merge(SkipList&& other), this != &other
mergeBegun(m, other, levels, b) ==
  IF Fatal(b.f) THEN Merged(m, other, b.f, "none", {})
  ELSE withFault(mergeLoop(m, other, b.node, levels, 1, {}, Fuel), b.f)

mergeFrom(m, other, levels, b0) ==
  Only({mergeBegun(m, other, levels, b) : b \in {b0}})

merge(m, other, levels) ==
  Only({mergeFrom(m, other, levels, begin(o)) : o \in {As(m, other)}})

\* ------------------------------------------------- swap and comparison
\* Lines 526-530 without swap(a._size, b._size).
swap_sizeKept(a, b) ==
  [a |-> [b EXCEPT !.size = a.size], b |-> [a EXCEPT !.size = b.size]]

\* friend void swap(SkipList& a, SkipList& b): head, tail, current_max_level
\* and _size change places (the comparator and the allocator hold no state).
swap(a, b) == [a |-> b, b |-> a]

\* Lines 597-603: while (itl != lsl.end() && itr != rsl.end()).
RECURSIVE eqWalk(_, _, _, _, _, _, _)
eqWalk(h, lv, itl, el, itr, er, fuel) ==
  IF itl = el \/ itr = er THEN [ret |-> TRUE, f |-> NoFault]
  ELSE IF itl = Null \/ itr = Null THEN [ret |-> FALSE, f |-> NullDeref]
  ELSE IF fuel = 0 THEN [ret |-> FALSE, f |-> Hang]
  ELSE IF h[itl].data # h[itr].data
       THEN [ret |-> FALSE, f |-> Max2(F(lv, itl), F(lv, itr))]
  ELSE withFault(eqWalk(h, lv, h[itl].right, el, h[itr].right, er, fuel - 1),
                 Max2(F(lv, itl), F(lv, itr)))

\* The four iterators of a comparison: begin() and end() of both sides.
Ends(lsl, rsl) == [bl |-> begin(lsl), el |-> end(lsl), br |-> begin(rsl), er |-> end(rsl)]

EndsFault(x) == Max2(Max2(x.bl.f, x.el.f), Max2(x.br.f, x.er.f))

equalFrom(lsl, rsl, x) ==
  IF Fatal(EndsFault(x)) THEN [ret |-> FALSE, f |-> EndsFault(x)]
  ELSE withFault(eqWalk(lsl.heap, lsl.live, x.bl.node, x.el.node, x.br.node, x.er.node,
                        Fuel),
                 EndsFault(x))

\* friend bool operator==(const SkipList& lsl, const SkipList& rsl)
equal(lsl, rsl) ==
  IF lsl.size # rsl.size THEN [ret |-> FALSE, f |-> NoFault]
  ELSE Only({equalFrom(lsl, rsl, x) : x \in {Ends(lsl, rsl)}})

\* Lines 615-621 and the return of line 622.
RECURSIVE ltWalk(_, _, _, _, _, _, _, _)
ltWalk(h, lv, itl, el, itr, er, bySize, fuel) ==
  IF itl = el \/ itr = er THEN [ret |-> bySize, f |-> NoFault]
  ELSE IF itl = Null \/ itr = Null THEN [ret |-> FALSE, f |-> NullDeref]
  ELSE IF fuel = 0 THEN [ret |-> FALSE, f |-> Hang]
  ELSE IF h[itl].data < h[itr].data
       THEN [ret |-> TRUE, f |-> Max2(F(lv, itl), F(lv, itr))]
  ELSE IF h[itr].data < h[itl].data
       THEN [ret |-> FALSE, f |-> Max2(F(lv, itl), F(lv, itr))]
  ELSE withFault(ltWalk(h, lv, h[itl].right, el, h[itr].right, er, bySize, fuel - 1),
                 Max2(F(lv, itl), F(lv, itr)))

lessFrom(lsl, rsl, x) ==
  IF Fatal(EndsFault(x)) THEN [ret |-> FALSE, f |-> EndsFault(x)]
  ELSE withFault(ltWalk(lsl.heap, lsl.live, x.bl.node, x.el.node, x.br.node, x.er.node,
                        lsl.size < rsl.size, Fuel),
                 EndsFault(x))

\* friend bool operator<(const SkipList& lsl, const SkipList& rsl)
less(lsl, rsl) == Only({lessFrom(lsl, rsl, x) : x \in {Ends(lsl, rsl)}})

\* operator!=, operator<=, operator>, operator>=
notEqual(lsl, rsl) == [equal(lsl, rsl) EXCEPT !.ret = ~@]
lessEqual(lsl, rsl) == [less(rsl, lsl) EXCEPT !.ret = ~@]
greater(lsl, rsl) == less(rsl, lsl)
greaterEqual(lsl, rsl) == [less(lsl, rsl) EXCEPT !.ret = ~@]

\* ------------------------------------------------------ constructors
\* Lines 203-224: a sentinel pair per level, each above the one before;
\* m.head and m.tail are heads.back() and tails.back().
RECURSIVE copyLadder(_, _, _)
copyLadder(m, lvl, top) ==
  IF lvl > top THEN m
  ELSE LET nh == create_node(m, BlankNode.data)
           nt == create_node(nh.m, BlankNode.data)
       IN copyLadder([nt.m EXCEPT !.heap[nh.node].right = nt.node,
                                  !.heap[nt.node].left = nh.node,
                                  !.heap[nh.node].down = m.head,
                                  !.heap[nt.node].down = m.tail,
                                  !.head = nh.node,
                                  !.tail = nt.node],
                      lvl + 1, top)

\* Lines 749-752: new_node->down = findLowerNode(new_node->data, level - 1).
setDown(m, n, level) ==
  IF level > 1
  THEN LET lower_node == findLowerNode(m, m.heap[n].data, level - 1)
       IN [m |-> [m EXCEPT !.heap[n].down = lower_node.node], f |-> lower_node.f]
  ELSE [m |-> m, f |-> NoFault]

\* Lines 741-755: the while loop of copyLevel; c is the node just created.
RECURSIVE copyWalk(_, _, _, _, _, _)
copyNode(c, other_curr, other_tail, current, level, fuel) ==
  IF c.m.heap[current].right = Null THEN [m |-> c.m, f |-> NullDeref]
  ELSE LET d == setDown(linkNode(c.m, c.node, current, Null), c.node, level)
       IN IF Fatal(d.f) THEN d
          ELSE withFault(copyWalk(d.m, d.m.heap[other_curr].right, other_tail,
                                  c.node, level, fuel - 1),
                         Max3(d.f, F(d.m.live, other_curr), F(d.m.live, current)))

copyWalk(m, other_curr, other_tail, current, level, fuel) ==
  IF other_curr = other_tail THEN [m |-> m, f |-> NoFault]
  ELSE IF other_curr = Null \/ current = Null THEN [m |-> m, f |-> NullDeref]
  ELSE IF fuel = 0 THEN [m |-> m, f |-> Hang]
  ELSE IF (1..m.cap) \ m.live = {} THEN [m |-> m, f |-> NoRoom]
  ELSE copyNode(create_node(m, m.heap[other_curr].data), other_curr, other_tail,
                current, level, fuel)

\* void copyLevel(const SkipList& other, int level)
copyLevel(m, other, level) ==
  LET oh == getHeadAtLevel(As(m, other), level)
      ot == getTailAtLevel(As(m, other), level)
      current == getHeadAtLevel(m, level)
  IN IF oh.node = Null \/ Fatal(Max3(oh.f, ot.f, current.f))
     THEN [m |-> m, f |-> Max2(NullDeref, Max3(oh.f, ot.f, current.f))]
     ELSE withFault(copyWalk(m, m.heap[oh.node].right, ot.node, current.node, level, Fuel),
                    Max2(Max3(oh.f, ot.f, current.f), F(m.live, oh.node)))

\* Lines 226-229: copyLevel for lvl = 1 .. current_max_level.
RECURSIVE copyLevels(_, _, _)
copyLevels(r, other, lvl) ==
  IF Fatal(r.f) \/ lvl > r.m.cml THEN r
  ELSE copyLevels(withFault(copyLevel(r.m, other, lvl), r.f), other, lvl + 1)

\* SkipList(const SkipList& other); m holds no container yet.
copyConstruct(m, other) ==
  copyLevels([m |-> copyLadder([m EXCEPT !.head = Null, !.tail = Null,
                                         !.cml = other.current_max_level,
                                         !.size = other.size],
                               1, other.current_max_level),
              f |-> NoFault],
             other, 1)

\* ------------------------------------------------------- observations
size(m) == m.size

\* bool empty() const
empty(m) ==
  LET hd == getHeadAtLevel(m, 1)
      tl == getTailAtLevel(m, 1)
  IN IF hd.node = Null THEN [ret |-> FALSE, f |-> NullDeref]
     ELSE [ret |-> m.heap[hd.node].right = tl.node,
           f |-> Max3(hd.f, tl.f, F(m.live, hd.node))]

\* The values met by for (it = begin(); it != end(); ++it), as a sequence;
\* the walk stops at a null pointer and after Fuel steps.
RECURSIVE IterSeq(_, _, _, _)
IterSeq(h, curr, e, fuel) ==
  IF curr = e \/ curr = Null \/ fuel = 0 THEN <<>>
  ELSE <<h[curr].data>> \o IterSeq(h, h[curr].right, e, fuel - 1)

Iteration(m) ==
  LET b == begin(m)
      e == end(m)
  IN IF Fatal(Max2(b.f, e.f)) THEN <<>> ELSE IterSeq(m.heap, b.node, e.node, Fuel)

\* The nodes met by the same walk.
RECURSIVE IterNodes(_, _, _, _)
IterNodes(h, curr, e, fuel) ==
  IF curr = e \/ curr = Null \/ fuel = 0 THEN <<>>
  ELSE <<curr>> \o IterNodes(h, h[curr].right, e, fuel - 1)

\* The elements of a sequence.
Range(seq) == {seq[i] : i \in 1..Len(seq)}

\* The values of the real nodes of level lvl, head to tail.
LevelSeq(m, lvl) ==
  LET hd == getHeadAtLevel(m, lvl)
      tl == getTailAtLevel(m, lvl)
  IN IF hd.node = Null THEN <<>>
     ELSE IterSeq(m.heap, m.heap[hd.node].right, tl.node, Fuel)

LevelNodes(m, lvl) ==
  LET hd == getHeadAtLevel(m, lvl)
      tl == getTailAtLevel(m, lvl)
  IN IF hd.node = Null THEN <<>>
     ELSE IterNodes(m.heap, m.heap[hd.node].right, tl.node, Fuel)

\* Cells the copy of container `other` allocates when its walks end.
CopyNeeds(m, other) ==
  2 * other.current_max_level
  + Cardinality({p \in (1..max_lvl) \X Nodes :
                   /\ p[1] <= other.current_max_level
                   /\ \E i \in 1..Len(LevelNodes(As(m, other), p[1])) :
                        LevelNodes(As(m, other), p[1])[i] = p[2]})

\* A constructor that would leave head->right unset.
emptyList_headLoose(m) ==
  LET nh == create_node(m, BlankNode.data)
      nt == create_node(nh.m, BlankNode.data)
  IN [nt.m EXCEPT !.heap[nt.node].left = nh.node,
                  !.head = nh.node, !.tail = nt.node,
                  !.cml = 1, !.size = 0]

\* SkipList(): one level, head <-> tail, no down references.
emptyList(m) ==
  LET nh == create_node(m, BlankNode.data)
      nt == create_node(nh.m, BlankNode.data)
  IN [nt.m EXCEPT !.heap[nh.node].right = nt.node,
                  !.heap[nt.node].left = nh.node,
                  !.head = nh.node, !.tail = nt.node,
                  !.cml = 1, !.size = 0]

\* A move constructor that would leave _size in the moved-from object.
moveConstruct_sizeKept(m) == [emptyList(m) EXCEPT !.size = m.size]

\* SkipList(SkipList&& other) noexcept: the members are taken, then `other`
\* gets a fresh sentinel pair; m is seen through the members of `other`.
moveConstruct(m) == emptyList(m)

\* ~SkipList(): row by row from the top, the next row read before the row
\* is deleted.
RECURSIVE destroyLevels(_, _, _)
destroyLevels(m, current_level, fuel) ==
  IF current_level = Null THEN [m |-> m, f |-> NoFault]
  ELSE IF fuel = 0 THEN [m |-> m, f |-> Hang]
  ELSE LET d == deleteRow(m, current_level, Fuel)
       IN IF Fatal(d.f) THEN d
          ELSE withFault(destroyLevels(d.m, m.heap[current_level].down, fuel - 1),
                         Max2(F(m.live, current_level), d.f))

destroy(m) == destroyLevels(m, m.head, Fuel)

\* Lines 282-286: a fresh sentinel pair for `other` and current_max_level = 1;
\* _size is not assigned.
reseat(m) == [emptyList(m) EXCEPT !.size = m.size]

\* Lines 277-281: SkipList temp(std::move(other)); swap(*this, temp); and the
\* destructor of temp at the end of the block.  m is the heap, this_ and
\* other are the members of the two objects; t is the heap with the new
\* members of other, s.a the new members of *this and s.b those of temp.
moveResult(d, this_, other) == [m |-> d.m, this_ |-> this_, other |-> other, f |-> d.f]

moveDestroy(t, s) == moveResult(destroy(As(t, s.b)), s.a, Members(t))

moveBody(m, this_, other) == moveDestroy(moveConstruct(As(m, other)), swap(this_, other))

\* SkipList& operator=(SkipList&& other) noexcept; same says that other is
\* *this.  The function has no return statement.
moveEnd(r, b, same) ==
  [m |-> r,
   this_ |-> IF same THEN Members(r) ELSE b.this_,
   other |-> Members(r),
   f |-> IF b.f = NoFault THEN NoReturn ELSE b.f]

moveTail(b, same) == moveEnd(reseat(As(b.m, b.other)), b, same)

moveAssign(m, this_, other, same) ==
  moveTail(IF same THEN [m |-> m, this_ |-> this_, other |-> other, f |-> NoFault]
           ELSE moveBody(m, this_, other),
           same)

\* The structural invariants of container m: every level holds live nodes in
\* strictly ascending order, every node above level 1 is down-linked to the
\* node of its value one level below, and size is the length of level 1.
Structure(m) ==
  /\ \A lvl \in 1..max_lvl :
       lvl <= m.cml =>
         /\ Range(LevelNodes(m, lvl)) \subseteq m.live
         /\ \A i \in 1..Len(LevelSeq(m, lvl)) :
              i > 1 => LevelSeq(m, lvl)[i - 1] < LevelSeq(m, lvl)[i]
         /\ lvl > 1 =>
              \A n \in Range(LevelNodes(m, lvl)) :
                /\ m.heap[n].down \in Range(LevelNodes(m, lvl - 1))
                /\ m.heap[m.heap[n].down].data = m.heap[n].data
  /\ size(m) = Len(LevelSeq(m, 1))

\* The number of sentinels from the top head down to level 1.
RECURSIVE Height(_, _, _)
Height(h, n, fuel) ==
  IF n = Null \/ fuel = 0 THEN 0 ELSE 1 + Height(h, h[n].down, fuel - 1)

\* Container m is as the constructors, insert and erase by value leave it.
Intact(m) ==
  /\ Structure(m)
  /\ Height(m.heap, m.head, Fuel) = m.cml
  /\ Height(m.heap, m.tail, Fuel) = m.cml

\* ------------------------------------------------------- the machine
\* What a build can do with an operation that met fault f: a use after free
\* either crashes or reads the freed cell's old contents and goes on.
Outcomes(f) ==
  CASE f = NoFault -> {"ok"}
    [] f = Stale -> {"ok", "crashed"}
    [] f = NullDeref -> {"crashed"}
    [] f = Hang -> {"hung"}
    [] f = NoReturn -> {"ok", "crashed"}
    [] OTHER -> {"crashed", "hung"}

\* Addresses are opaque to the program, so after every operation the cells
\* are renumbered in the order in which a walk from the sentinels (right,
\* then down, then left) meets them; live cells the walk misses (leaked
\* nodes) follow, and a freed cell no pointer leads to is shown blank.
RECURSIVE SortedSeq(_)
SortedSeq(S) ==
  IF S = {} THEN <<>>
  ELSE LET x == CHOOSE a \in S : \A b \in S : a <= b
       IN <<x>> \o SortedSeq(S \ {x})

RECURSIVE Visit(_, _, _)
Visit(h, stack, seq) ==
  IF stack = <<>> THEN seq
  ELSE LET n == Head(stack)
       IN IF n = Null \/ (\E i \in 1..Len(seq) : seq[i] = n)
          THEN Visit(h, Tail(stack), seq)
          ELSE Visit(h, <<h[n].right, h[n].down, h[n].left>> \o Tail(stack),
                     Append(seq, n))

\* The walk from the roots, then from the live cells it has missed.
VisitRest(h, lv, seq) == Visit(h, SortedSeq(lv \ {seq[i] : i \in 1..Len(seq)}), seq)

VisitAll(h, lv, roots) ==
  Only({VisitRest(h, lv, seq) : seq \in {Visit(h, roots, <<>>)}})

\* A pointer to a cell that the renumbering drops.
Wild == NumNodes + 1

Ren(seq, p) ==
  IF p = Null THEN Null
  ELSE IF \E i \in 1..Len(seq) : seq[i] = p
       THEN CHOOSE i \in 1..Len(seq) : seq[i] = p
       ELSE Wild

RenNode(seq, nd) ==
  [data |-> nd.data, left |-> Ren(seq, nd.left), right |-> Ren(seq, nd.right),
   down |-> Ren(seq, nd.down)]

NoOp == [op |-> "none", obj |-> "a", arg |-> 0, arg2 |-> 0, level |-> 0, ret |-> FALSE,
         it |-> Null, err |-> "none", fault |-> NoFault]

\* A container object that no constructor has run for.
NoList == [head |-> Null, tail |-> Null, current_max_level |-> 0, size |-> 0]

\* An operation ends: new are the members it leaves in every container, h and
\* lv the heap, f the fault it met, rec its call and result, ghosts the values
\* that are logically present in every container afterwards.
FinishHeap(new, h, lv, f, rec, ghosts, erasures) ==
  \E out \in Outcomes(f) :
    /\ UNCHANGED max_lvl
    /\ status' = out
    /\ iterErases' = IF out = "ok" THEN iterErases + erasures ELSE 0
    /\ survived' = IF out # "ok" THEN 0 ELSE IF f = Stale THEN survived + 1 ELSE survived
    /\ IF out = "ok"
       THEN LET order == ListOrder
                roots == [i \in 1..(2 * Len(order)) |->
                            IF i % 2 = 1 THEN new[order[(i + 1) \div 2]].head
                            ELSE new[order[i \div 2]].tail]
            IN \E seq \in {VisitAll(h, lv, roots)} :
               /\ sl' = [x \in Lists |-> [new[x] EXCEPT !.head = Ren(seq, @),
                                                        !.tail = Ren(seq, @)]]
               /\ live' = {i \in 1..Len(seq) : seq[i] \in lv}
               /\ heap' = [i \in Nodes |-> IF i <= Len(seq)
                                           THEN RenNode(seq, h[seq[i]])
                                           ELSE BlankNode]
               /\ present' = ghosts
               /\ last' = [rec EXCEPT !.fault = f, !.it = Ren(seq, @)]
       ELSE \* the process is gone, and its memory with it
            /\ heap' = [n \in Nodes |-> BlankNode]
            /\ live' = {}
            /\ sl' = [x \in Lists |-> NoList]
            /\ present' = [x \in Lists |-> {}]
            /\ last' = [rec EXCEPT !.fault = f]

\* The same for an operation that leaves the level generator alone.
FinishAll(new, h, lv, f, rec, ghosts, erasures) ==
  /\ FinishHeap(new, h, lv, f, rec, ghosts, erasures)
  /\ UNCHANGED rng

\* The operation on container c ends: m is the container and heap it leaves,
\* ghost the values that are logically present in c afterwards.
Finish(c, m, f, rec, ghost, erasures) ==
  FinishAll([sl EXCEPT ![c] = Members(m)], m.heap, m.live, f, [rec EXCEPT !.obj = c],
            [present EXCEPT ![c] = ghost], erasures)

Running == status = "ok" /\ survived < MaxSurvived

\* A constructor has run for container object c and no destructor since.
Constructed(c) == sl[c].head # Null

\* The cells the program may still allocate: every constructed container
\* brings the cells of one full container.
Room == FullCells * Cardinality({c \in Lists : Constructed(c)}) - Cardinality(live)

\* SkipList(): one level, head <-> tail, no down references.
\* The level generator before any call of random_level(): the function's
\* static objects (lines 698-700) are initialised by the first call.  pc is
\* where each container's insert stands, arg its argument, seen the generator
\* state its dist(gen) has read, level its local variable; own is the state
\* of a generator that served that container alone, expect the level it
\* gives, draws the calls counted.
NoDraws == [gen |-> Unseeded,
            pc |-> [c \in Lists |-> "idle"],
            arg |-> [c \in Lists |-> 0],
            seen |-> [c \in Lists |-> 0],
            level |-> [c \in Lists |-> 1],
            own |-> [c \in Lists |-> Unseeded],
            expect |-> [c \in Lists |-> 1],
            draws |-> [c \in Lists |-> 0]]

Init ==
  /\ heap = [n \in Nodes |-> IF n = 1 THEN [BlankNode EXCEPT !.right = 2]
                             ELSE IF n = 2 THEN [BlankNode EXCEPT !.left = 1]
                             ELSE BlankNode]
  /\ live = {1, 2}
  /\ sl = [c \in Lists |-> IF c = "a"
                            THEN [head |-> 1, tail |-> 2, current_max_level |-> 1, size |-> 0]
                            ELSE NoList]
  /\ status = "ok"
  /\ present = [c \in Lists |-> {}]
  /\ last = NoOp
  /\ iterErases = 0
  /\ survived = 0
  /\ rng = NoDraws
  /\ max_lvl = MAX_LVL

\* The same with TALL_LVL for DEFAULT_MAX_LVL.
InitTall ==
  /\ heap = [n \in Nodes |-> IF n = 1 THEN [BlankNode EXCEPT !.right = 2]
                             ELSE IF n = 2 THEN [BlankNode EXCEPT !.left = 1]
                             ELSE BlankNode]
  /\ live = {1, 2}
  /\ sl = [c \in Lists |-> IF c = "a"
                            THEN [head |-> 1, tail |-> 2, current_max_level |-> 1, size |-> 0]
                            ELSE NoList]
  /\ status = "ok"
  /\ present = [c \in Lists |-> {}]
  /\ last = NoOp
  /\ iterErases = 0
  /\ survived = 0
  /\ rng = NoDraws
  /\ max_lvl = TALL_LVL

\* c.insert(v); a call that is only there to fill the container records
\* nothing but its name.
InsertCall(c, fill) ==
  \E v \in Values, level \in random_level, reuse \in BOOLEAN :
    \E m \in {[M(c) EXCEPT !.reuse = reuse]} :
       /\ Running
       /\ Room >= InsertNeeds(m, level)
       /\ reuse => Dangling(m) # {}
       /\ \E o \in {insert(m, v, level)} :
            Finish(c, o.m, o.f,
                   IF fill THEN [NoOp EXCEPT !.op = "insert", !.err = o.err]
                   ELSE [NoOp EXCEPT !.op = "insert", !.arg = v, !.level = level,
                                     !.ret = o.inserted, !.it = o.it, !.err = o.err],
                   IF o.inserted THEN present[c] \cup {v} ELSE present[c], 0)

Insert(c) == InsertCall(c, FALSE)

\* The generator seeded with s by the static initialisers.
seeded(r, s) == [r EXCEPT !.gen = s, !.own = [c \in Lists |-> s]]

\* Lines 307-311: c.insert(v) finds v absent and enters random_level(); the
\* first call of all seeds the generator (lines 698-700, once per program).
levelCall(r, c, v) ==
  [r EXCEPT !.pc[c] = "read", !.arg[c] = v, !.level[c] = 1,
            !.expect[c] = drawLoop(r.own[c], 1).level,
            !.own[c] = drawLoop(r.own[c], 1).gen]

InsertBegin(c) ==
  \E v \in Values :
    /\ Running
    /\ Constructed(c)
    /\ rng.pc[c] = "idle"
    /\ rng.draws[c] < MaxDraws
    /\ findNode(M(c), v) = [node |-> Null, f |-> NoFault]
    /\ \E s \in IF rng.gen = Unseeded THEN GenStates ELSE {rng.gen} :
         rng' = levelCall(seeded(rng, IF rng.gen = Unseeded THEN s ELSE rng.gen), c, v)
    /\ UNCHANGED <<heap, live, sl, status, present, last, iterErases, survived, max_lvl>>

\* Line 703, dist(gen), first half: the call reads the generator's state.
DrawRead(c) ==
  /\ Running
  /\ rng.pc[c] = "read"
  /\ rng' = [rng EXCEPT !.pc[c] = "write", !.seen[c] = rng.gen]
  /\ UNCHANGED <<heap, live, sl, status, present, last, iterErases, survived, max_lvl>>

\* What a write of the generator's state leaves when the state was `now` and
\* the writer had read `seen`: the writer's successor state, or, when another
\* call has written in between (a data race on gen), any state.
genWritten(now, seen) == IF now = seen THEN {Advance(seen)} ELSE GenStates

\* Line 703, second half: the call writes the generator's next state, and
\* goes round the loop or returns level (line 707).
DrawWrite(c) ==
  /\ Running
  /\ rng.pc[c] = "write"
  /\ \E g \in genWritten(rng.gen, rng.seen[c]) :
       rng' = IF drawMore(Success(rng.seen[c]), rng.level[c])
              THEN [rng EXCEPT !.gen = g, !.pc[c] = "read", !.level[c] = @ + 1]
              ELSE [rng EXCEPT !.gen = g, !.pc[c] = "drawn", !.seen[c] = 0]
  /\ UNCHANGED <<heap, live, sl, status, present, last, iterErases, survived, max_lvl>>

\* Lines 312-380: the rest of c.insert(v) with the level drawn.
InsertEnd(c) ==
  \E reuse \in BOOLEAN :
    \E m \in {[M(c) EXCEPT !.reuse = reuse]} :
       /\ Running
       /\ rng.pc[c] = "drawn"
       /\ Room >= InsertNeeds(m, rng.level[c])
       /\ reuse => Dangling(m) # {}
       /\ rng' = [rng EXCEPT !.pc[c] = "idle", !.draws[c] = @ + 1, !.arg[c] = 0,
                              !.level[c] = 1, !.expect[c] = 1]
       /\ \E o \in {insertAbsent(m, rng.arg[c], rng.level[c], NoFault)} :
            FinishHeap([sl EXCEPT ![c] = Members(o.m)], o.m.heap, o.m.live, o.f,
                       [NoOp EXCEPT !.op = "insert", !.obj = c, !.err = o.err],
                       [present EXCEPT ![c] = IF o.inserted THEN @ \cup {rng.arg[c]} ELSE @],
                       0)

Fill(c) == InsertCall(c, TRUE)

\* c.insert(v) with the allocator throwing on the k-th allocation; the caller
\* catches the exception.  Allocations fail only while c is intact.
InsertFails(c) ==
  \E v \in Values, level \in random_level :
    \E m \in {M(c)} :
       /\ Running
       /\ Intact(m)
       /\ \E k \in 1..InsertNeeds(m, level) :
            /\ Room >= k - 1
            /\ \E dup \in {contains(m, v)} :
                 /\ dup.f = NoFault /\ ~dup.ret
                 /\ \E o \in {insertFailing(m, v, level, k)} :
                      Finish(c, o.m, o.f,
                             [NoOp EXCEPT !.op = "insert", !.arg = v, !.level = level,
                                          !.arg2 = k, !.err = o.err],
                             present[c], 0)

Erase(c) ==
  \E v \in Values :
    \E o \in {erase(M(c), v)} :
       /\ Running
       /\ Finish(c, o.m, o.f, [NoOp EXCEPT !.op = "erase", !.arg = v, !.ret = o.ret],
                 IF o.ret THEN present[c] \ {v} ELSE present[c], 0)

EraseIter(c) ==
  \E pos \in Ptrs :
    \E o \in {eraseIt(M(c), pos)} :
       /\ Running
       /\ o.err = "none" => iterErases < MaxIterErases
       /\ Finish(c, o.m, o.f,
                 [NoOp EXCEPT !.op = "erase_iterator",
                              !.arg = IF o.err = "none" THEN pos ELSE Null,
                              !.it = o.it, !.err = o.err],
                 IF o.err = "none" /\ pos # Null
                 THEN present[c] \ {heap[pos].data} ELSE present[c],
                 IF o.err = "none" THEN 1 ELSE 0)

Clear(c) ==
  \E o \in {clear(M(c))} :
     /\ Running
     /\ Finish(c, o.m, o.f, [NoOp EXCEPT !.op = "clear"], {}, 0)

\* The iterators a caller gets by walking container c: its elements' and end().
Positions(c) ==
  LET b == begin(M(c))
      e == end(M(c))
  IN IF Fatal(Max2(b.f, e.f)) THEN {}
     ELSE {e.node} \cup {n \in Nodes : \E i \in 1..Fuel :
                           i <= Len(IterNodes(heap, b.node, e.node, Fuel))
                           /\ IterNodes(heap, b.node, e.node, Fuel)[i] = n}

EraseRange(c) ==
  \E first \in Positions(c), last_ \in Positions(c) :
    \E o \in {eraseRange(M(c), first, last_)} :
       /\ Running
       /\ iterErases + Cardinality(o.erased) <= MaxIterErases
       /\ Finish(c, o.m, o.f,
                 [NoOp EXCEPT !.op = "erase_range",
                              !.arg = IF o.err = "none" /\ first # last_ THEN first ELSE Null,
                              !.arg2 = IF o.err = "none" /\ first # last_ THEN last_ ELSE Null,
                              !.it = o.it, !.err = o.err],
                 present[c] \ o.erased, Cardinality(o.erased))

\* SkipList<T> c;
Construct(c) ==
  /\ Running
  /\ ~Constructed(c)
  /\ Room + FullCells >= 2
  /\ \E r \in {emptyList([M(c) EXCEPT !.cap = @ + FullCells])} :
       Finish(c, r, NoFault, [NoOp EXCEPT !.op = "construct"], {}, 0)

\* SkipList<T> c(other);
CopyConstruct(c, other) ==
  \E reuse \in BOOLEAN :
    \E m \in {[M(c) EXCEPT !.reuse = reuse, !.cap = @ + FullCells]} :
       /\ Running
       /\ ~Constructed(c) /\ Constructed(other)
       /\ Room + FullCells >= CopyNeeds(m, sl[other])
       /\ reuse => Dangling(M(other)) # {}
       /\ \E r \in {copyConstruct(m, sl[other])} :
            /\ r.f # NoRoom
            /\ Finish(c, r.m, r.f, [NoOp EXCEPT !.op = "copy"], present[other], 0)

\* SkipList<T> c(std::move(other));
MoveConstruct(c, other) ==
  /\ Running
  /\ ~Constructed(c) /\ Constructed(other)
  /\ Room + FullCells >= 2
  /\ \E r \in {moveConstruct([M(other) EXCEPT !.cap = @ + FullCells])} :
       FinishAll([sl EXCEPT ![c] = sl[other], ![other] = Members(r)], r.heap, r.live,
                  NoFault, [NoOp EXCEPT !.op = "move", !.obj = c],
                  [present EXCEPT ![c] = present[other], ![other] = {}], 0)

\* c goes out of scope.
Destroy(c) ==
  /\ Running
  /\ Constructed(c)
  /\ \E r \in {destroy(M(c))} :
       FinishAll([sl EXCEPT ![c] = NoList], r.m.heap, r.m.live, r.f,
                  [NoOp EXCEPT !.op = "destroy", !.obj = c],
                  [present EXCEPT ![c] = {}], 0)

\* The values an iteration of `other` meets that c does not contain: each
\* costs merge one call of random_level().
Missing(c, other) ==
  {x \in Range(Iteration(M(other))) : ~contains(M(c), x).ret}

\* c.merge(std::move(other));
Merge(c, other) ==
  /\ Running
  /\ Constructed(c) /\ Constructed(other)
  /\ iterErases = 0
  /\ \E levels \in [1..Cardinality(Missing(c, other)) -> random_level] :
       \E m \in {M(c)} : \E r \in {merge(m, sl[other], levels)} :
          /\ r.f # NoRoom
          /\ FinishAll([sl EXCEPT ![c] = Members(r.m), ![other] = r.other],
                       r.m.heap, r.m.live, r.f,
                       [NoOp EXCEPT !.op = "merge", !.obj = c, !.err = r.err],
                       [present EXCEPT ![c] = @ \cup r.moved, ![other] = @ \ r.moved],
                       Cardinality(r.moved))

\* swap(a, b);
Swap(a, b) ==
  /\ Running
  /\ Constructed(a) /\ Constructed(b)
  /\ \E r \in {swap(sl[a], sl[b])} :
       FinishAll([sl EXCEPT ![a] = r.a, ![b] = r.b], heap, live, NoFault,
                 [NoOp EXCEPT !.op = "swap", !.obj = a],
                 [present EXCEPT ![a] = present[b], ![b] = present[a]], 0)

\* The nodes that right and down references lead to from the nodes of S
\* without passing through a destroyed one.
RECURSIVE Closure(_, _, _)
Closure(h, lv, S) ==
  IF (UNION {{h[n].right, h[n].down} : n \in S}) \cap lv \subseteq S THEN S
  ELSE Closure(h, lv, S \cup ((UNION {{h[n].right, h[n].down} : n \in S}) \cap lv))

\* The nodes of container m: those reachable from its head.
Owned(m) == Closure(m.heap, m.live, {m.head} \cap m.live)

\* The live nodes that no container reaches any more.
Leaked == live \ UNION {Owned(M(c)) : c \in Lists}

\* c = std::move(other); other may be c itself.
MoveAssign(c, other) ==
  /\ Running
  /\ Constructed(c) /\ Constructed(other)
  /\ Room >= 2
  /\ Cardinality(Leaked) <= MaxLeaked
  /\ \E r \in {moveAssign(M(c), sl[c], sl[other], c = other)} :
       FinishAll([sl EXCEPT ![other] = r.other, ![c] = r.this_], r.m.heap, r.m.live, r.f,
                 [NoOp EXCEPT !.op = IF c = other THEN "move_assign_self" ELSE "move_assign",
                              !.obj = c],
                 IF c = other THEN present
                 ELSE [present EXCEPT ![c] = present[other], ![other] = {}], 0)

\* The lookups are const: they leave the container and the record of the
\* last mutating call as they are, unless the lookup itself goes wrong.
Observe(c, f, rec) ==
  \E out \in Outcomes(f) :
    IF out = "ok"
    THEN /\ survived' = IF f = Stale THEN survived + 1 ELSE survived
         /\ UNCHANGED <<heap, live, sl, status, present, last, iterErases, rng, max_lvl>>
    ELSE Finish(c, M(c), IF out = "hung" THEN Hang ELSE NullDeref, rec, present[c], 0)

Find(c) ==
  \E k \in Values :
    \E o \in {find(M(c), k)} :
       /\ Running
       /\ Observe(c, o.f, [NoOp EXCEPT !.op = "find", !.arg = k])

Contains(c) ==
  \E v \in Values :
    \E o \in {contains(M(c), v)} :
       /\ Running
       /\ Observe(c, o.f, [NoOp EXCEPT !.op = "contains", !.arg = v])

LowerBound(c) ==
  \E k \in Values :
    \E o \in {lower_bound(M(c), k)} :
       /\ Running
       /\ Observe(c, o.f, [NoOp EXCEPT !.op = "lower_bound", !.arg = k])

UpperBound(c) ==
  \E k \in Values :
    \E o \in {upper_bound(M(c), k)} :
       /\ Running
       /\ Observe(c, o.f, [NoOp EXCEPT !.op = "upper_bound", !.arg = k])

Next ==
  \/ Insert("a")
  \/ Erase("a")
  \/ EraseIter("a")
  \/ Clear("a")
  \/ Find("a")
  \/ Contains("a")
  \/ LowerBound("a")
  \/ UpperBound("a")

Spec == Init /\ [][Next]_vars

\* Inserts and erases by value, with erase(first, last).
NextRange ==
  \/ Insert("a")
  \/ Erase("a")
  \/ EraseRange("a")

SpecRange == Init /\ [][NextRange]_vars

\* A second container object b that is built from a by copy or by move,
\* used next to a and destroyed again.
NextCopy ==
  \/ Insert("a")
  \/ Erase("a")
  \/ CopyConstruct("b", "a")
  \/ MoveConstruct("b", "a")
  \/ Constructed("b") /\ Insert("b")
  \/ Constructed("b") /\ Erase("b")
  \/ Constructed("b") /\ Clear("b")
  \/ Destroy("b")

SpecCopy == Init /\ [][NextCopy]_vars

\* Two containers a and b, filled by inserts, then a.merge(b); the run ends
\* with the first merge that moves an element.
NextMerge ==
  \/ Construct("b")
  \/ iterErases = 0 /\ Fill("a")
  \/ iterErases = 0 /\ Constructed("b") /\ Fill("b")
  \/ Merge("a", "b")

SpecMerge == Init /\ [][NextMerge]_vars

\* a == b, a < b and the derived operators, both ways round.
Compare(a, b) ==
  /\ Running
  /\ Constructed(a) /\ Constructed(b)
  /\ \E l \in {M(a)}, r \in {M(b)} :
       \E o \in {equal(l, r), less(l, r), less(r, l)} :
          Observe(a, o.f, [NoOp EXCEPT !.op = "compare"])

\* Two containers a and b, filled by inserts and emptied by erase by value,
\* and swapped.
NextPair ==
  \/ Construct("b")
  \/ Fill("a")
  \/ Constructed("b") /\ Fill("b")
  \/ Erase("a")
  \/ Swap("a", "b")

SpecPair == Init /\ [][NextPair]_vars

\* Two containers a and b, filled by inserts and compared; erase(iterator)
\* is called on a until it has erased an element.
NextCompare ==
  \/ Construct("b")
  \/ Fill("a")
  \/ Constructed("b") /\ Fill("b")
  \/ iterErases = 0 /\ EraseIter("a")
  \/ Compare("a", "b")

SpecCompare == Init /\ [][NextCompare]_vars

\* Inserts and erases by value only.
NextValues ==
  \/ Insert("a")
  \/ Erase("a")

SpecValues == Init /\ [][NextValues]_vars

\* Inserts and erases by value, with allocations that fail.
NextAlloc ==
  \/ Insert("a")
  \/ Erase("a")
  \/ InsertFails("a")

SpecAlloc == Init /\ [][NextAlloc]_vars

\* Inserts into two containers, each on a thread of its own, with the steps
\* of random_level() interleaved; erase on a container between its inserts.
NextLevels ==
  \/ Construct("b")
  \/ InsertBegin("a")
  \/ DrawRead("a")
  \/ DrawWrite("a")
  \/ InsertEnd("a")
  \/ InsertBegin("b")
  \/ DrawRead("b")
  \/ DrawWrite("b")
  \/ InsertEnd("b")
  \/ rng.pc["a"] = "idle" /\ Erase("a")

SpecLevels == Init /\ [][NextLevels]_vars

\* Inserts, and inserts with a failing allocation, into one container whose
\* towers can be TALL_LVL high.
NextTall ==
  \/ Fill("a")
  \/ InsertFails("a")

SpecTall == InitTall /\ [][NextTall]_vars

\* ------------------------------------------------------------ the claims
\* The container before and after a step.
Now == M("a")

After == [heap |-> heap', live |-> live', head |-> sl'["a"].head, tail |-> sl'["a"].tail,
          cml |-> sl'["a"].current_max_level, size |-> sl'["a"].size, reuse |-> FALSE]

\* The nodes an iteration from begin() to end() visits.
IterationNodes(m) ==
  LET b == begin(m)
      e == end(m)
  IN IF Fatal(Max2(b.f, e.f)) THEN <<>> ELSE IterNodes(m.heap, b.node, e.node, Fuel)

Without(seq, x) == SelectSeq(seq, LAMBDA y : y # x)

\* The process runs, and no call so far has read freed memory.
Sound == status = "ok" /\ survived = 0

\* This step is a call of `op` that returned, in a run that stays Sound.
Called(op) == last' # last /\ last'.op = op /\ status' = "ok" /\ survived' = 0

\* The value behind iterator it, when it dereferences to one.
Deref(h, it, x) == it \in Nodes /\ h[it].data = x

\* C1: contains(x) is true iff x was inserted and not erased since, whatever
\* erase overload did the erasing.
C1_ContainsIffPresent ==
  Sound =>
    \A x \in Values :
      contains(Now, x).f = NoFault => (contains(Now, x).ret <=> x \in present["a"])

\* C2: size() is the number of values logically present, and the number of
\* real nodes of the level-1 list.
C2_SizeIsCount ==
  Sound =>
    /\ size(Now) = Cardinality(present["a"])
    /\ size(Now) = Len(LevelNodes(Now, 1))

\* C3: iterating from begin() to end() visits every present element once, in
\* strictly ascending order.
C3_IterationAscending ==
  Sound => Iteration(Now) = SortedSeq(present["a"])

\* C4: insert(v) of a present value returns inserted = false and the location
\* of the element, and changes nothing.
C4_DuplicateInsert ==
  [][(Called("insert") /\ last'.arg \in present["a"]) =>
       /\ ~last'.ret
       /\ Deref(heap', last'.it, last'.arg)
       /\ UNCHANGED <<heap, live, sl>>]_vars

\* C5: insert(v) of an absent value returns inserted = true and the location
\* of v; size() grows by one, contains(v) holds, the other elements stay in
\* their order.
C5_InsertAbsent ==
  [][(Called("insert") /\ last'.arg \notin present["a"]) =>
       /\ last'.ret
       /\ Deref(heap', last'.it, last'.arg)
       /\ size(After) = size(Now) + 1
       /\ contains(After, last'.arg).f = NoFault => contains(After, last'.arg).ret
       /\ Without(Iteration(After), last'.arg) = Iteration(Now)]_vars

\* C6: erase(value) returns true exactly when value was present; then value is
\* gone, size() is one less and the other elements are as before; when it
\* returns false nothing has changed.
C6_EraseValue ==
  [][Called("erase") =>
       /\ last'.ret <=> last'.arg \in present["a"]
       /\ last'.ret =>
            /\ contains(After, last'.arg).f = NoFault => ~contains(After, last'.arg).ret
            /\ size(After) = size(Now) - 1
            /\ Iteration(After) = Without(Iteration(Now), last'.arg)
       /\ ~last'.ret => UNCHANGED <<heap, live, sl>>]_vars

\* C7: erase(pos) of a live element x removes every node of x's tower, makes
\* size() one less, trims the empty top levels and returns the successor of x,
\* or end().
C7_EraseIterator ==
  [][(Called("erase_iterator") /\ last'.err = "none") =>
       /\ \A lvl \in 1..max_lvl :
            heap[last'.arg].data \notin Range(LevelSeq(After, lvl))
       /\ size(After) = size(Now) - 1
       /\ After.cml = 1 \/ heap'[After.head].right # After.tail
       /\ IF \E y \in present["a"] : y > heap[last'.arg].data
          THEN Deref(heap', last'.it,
                     CHOOSE y \in present["a"] :
                       /\ y > heap[last'.arg].data
                       /\ \A z \in present["a"] : z > heap[last'.arg].data => y <= z)
          ELSE last'.it = end(After).node]_vars

C9_Find ==
  Sound =>
    \A k \in Values :
      find(Now, k).f = NoFault =>
        IF k \in present["a"] THEN Deref(heap, find(Now, k).node, k)
        ELSE find(Now, k).node = end(Now).node

\* The first node of the iteration whose value v has ok(v), or end().
FirstWith(m, ok(_)) ==
  LET ns == SelectSeq(IterationNodes(m), LAMBDA n : ok(m.heap[n].data))
  IN IF ns = <<>> THEN end(m).node ELSE Head(ns)

\* C10: lower_bound(k) is the first element not less than k, upper_bound(k)
\* the first element greater than k, and each is end() when there is none.
C10_Bounds ==
  Sound =>
    \A k \in Values :
      /\ lower_bound(Now, k).f = NoFault =>
           lower_bound(Now, k).node = FirstWith(Now, LAMBDA v : ~comp(v, k))
      /\ upper_bound(Now, k).f = NoFault =>
           upper_bound(Now, k).node = FirstWith(Now, LAMBDA v : comp(k, v))

\* Location n is a cursor over level 1: the iteration reaches it, and stepping
\* on from it meets exactly the larger present elements, ascending, then end().
Cursor(m, n) ==
  /\ n \in Range(IterationNodes(m))
  /\ IterSeq(m.heap, m.heap[n].right, end(m).node, Fuel)
       = SortedSeq({y \in present["a"] : y > m.heap[n].data})

\* C11: every location other than end() that find, insert, lower_bound,
\* upper_bound or begin() returns is a cursor over the level-1 nodes, for
\* every tower height of the element it denotes.
C11_LocationsAreCursors ==
  Sound =>
    /\ \A k \in Values :
         /\ (find(Now, k).f = NoFault /\ find(Now, k).node # end(Now).node)
              => Cursor(Now, find(Now, k).node)
         /\ (lower_bound(Now, k).f = NoFault /\ lower_bound(Now, k).node # end(Now).node)
              => Cursor(Now, lower_bound(Now, k).node)
         /\ (upper_bound(Now, k).f = NoFault /\ upper_bound(Now, k).node # end(Now).node)
              => Cursor(Now, upper_bound(Now, k).node)
    /\ begin(Now).node # end(Now).node => Cursor(Now, begin(Now).node)
    /\ (last.op = "insert" /\ last.err = "none" /\ last.it # end(Now).node)
         => (last.it \in Nodes /\ Cursor(Now, last.it))

\* C12: clear() completes on every container and leaves it with size() = 0,
\* empty(), begin() = end() and one empty level.
C12_ClearResets ==
  [][(last' # last /\ last'.op = "clear") =>
       /\ status' = "ok"
       /\ size(After) = 0
       /\ empty(After).ret
       /\ begin(After).node = end(After).node
       /\ After.cml = 1]_vars

\* C13: erase(begin(), end()) completes without an error on a container of
\* any size and leaves what clear() leaves: size() = 0, begin() = end(), one
\* empty level.
C13_EraseAllIsClear ==
  [][(last' # last /\ last'.op = "erase_range"
        /\ last'.arg = begin(Now).node /\ last'.arg2 = end(Now).node) =>
       /\ status' = "ok"
       /\ last'.err = "none"
       /\ size(After) = 0
       /\ begin(After).node = end(After).node
       /\ After.cml = 1]_vars

\* Two containers a and b, filled by inserts while no more than MaxLeaked
\* nodes have leaked, with a = std::move(b) and a = std::move(a).
NextAssign ==
  \/ Construct("b")
  \/ Cardinality(Leaked) <= MaxLeaked /\ Fill("a")
  \/ Cardinality(Leaked) <= MaxLeaked /\ Constructed("b") /\ Fill("b")
  \/ MoveAssign("a", "b")
  \/ MoveAssign("a", "a")

SpecAssign == Init /\ [][NextAssign]_vars

\* Container c after the step.
AfterOf(c) == [heap |-> heap', live |-> live', head |-> sl'[c].head, tail |-> sl'[c].tail,
               cml |-> sl'[c].current_max_level, size |-> sl'[c].size, reuse |-> FALSE,
               cap |-> NumNodes]

\* The sentinels and nodes of every level of container m.
Cells(m) ==
  {n \in Nodes : \E lvl \in 1..max_lvl :
     /\ lvl <= m.cml
     /\ \/ n \in {getHeadAtLevel(m, lvl).node, getTailAtLevel(m, lvl).node}
        \/ n \in Range(LevelNodes(m, lvl))}

\* This step is a call of `op` on container c.
CalledOn(op, c) == last' # last /\ last'.op = op /\ last'.obj = c

\* The other of the two container objects.
Other(c) == IF c = "a" THEN "b" ELSE "a"

\* C14: the copy has the size and the element sequence of its source, passes
\* validate() and shares no node with the source; a later insert, erase or
\* clear on either of the two returns and leaves the other one as it was.
C14_CopyIsIndependent ==
  [][/\ CalledOn("copy", "b") =>
          /\ status' = "ok"
          /\ size(AfterOf("b")) = size(Now)
          /\ Iteration(AfterOf("b")) = Iteration(Now)
          /\ Iteration(AfterOf("a")) = Iteration(Now)
          /\ validate(AfterOf("b")).ok
          /\ Cells(AfterOf("b")) \cap Cells(AfterOf("a")) = {}
     /\ \A c \in Lists :
          (Constructed(Other(c)) /\ \E op \in {"insert", "erase", "clear"} : CalledOn(op, c)) =>
             /\ status' = "ok"
             /\ Iteration(AfterOf(Other(c))) = Iteration(M(Other(c)))
             /\ size(AfterOf(Other(c))) = size(M(Other(c)))]_vars

\* The same without validate() and clear(): what the copy constructor does
\* by itself.
C14_CopyAlone ==
  [][/\ CalledOn("copy", "b") =>
          /\ status' = "ok"
          /\ size(AfterOf("b")) = size(Now)
          /\ Iteration(AfterOf("b")) = Iteration(Now)
          /\ Iteration(AfterOf("a")) = Iteration(Now)
          /\ \A lvl \in 1..max_lvl : LevelSeq(AfterOf("b"), lvl) = LevelSeq(Now, lvl)
          /\ Cells(AfterOf("b")) \cap Cells(AfterOf("a")) = {}
     /\ \A c \in Lists :
          (Constructed(Other(c)) /\ \E op \in {"insert", "erase"} : CalledOn(op, c)) =>
             /\ status' = "ok"
             /\ Iteration(AfterOf(Other(c))) = Iteration(M(Other(c)))
             /\ size(AfterOf(Other(c))) = size(M(Other(c)))]_vars

\* C15: after b is move-constructed from a, b holds what a held (size,
\* elements, the very nodes of every level) and a is empty: size 0, empty(),
\* begin() == end(), one level; a then takes an insert as a new container does.
C15_MoveTakesAll ==
  [][CalledOn("move", "b") =>
       /\ status' = "ok"
       /\ size(AfterOf("b")) = size(Now)
       /\ Iteration(AfterOf("b")) = Iteration(Now)
       /\ \A lvl \in 1..max_lvl : LevelSeq(AfterOf("b"), lvl) = LevelSeq(Now, lvl)
       /\ AfterOf("b").cml = Now.cml
       /\ size(AfterOf("a")) = 0
       /\ empty(AfterOf("a")).ret
       /\ begin(AfterOf("a")).node = end(AfterOf("a")).node
       /\ AfterOf("a").cml = 1
       /\ Cells(AfterOf("b")) \cap Cells(AfterOf("a")) = {}
       /\ \A v \in Values :
            /\ ~contains(AfterOf("a"), v).ret
            /\ insert(AfterOf("a"), v, 1).inserted
            /\ insert(AfterOf("a"), v, 1).f = NoFault
            /\ Iteration(insert(AfterOf("a"), v, 1).m) = <<v>>
            /\ size(insert(AfterOf("a"), v, 1).m) = 1]_vars

\* A two-level container with two elements has been moved into b.
C15_Moved ==
  /\ status = "ok"
  /\ last.op = "move"
  /\ sl["b"].size = 2
  /\ sl["b"].current_max_level = 2
  /\ sl["a"].size = 0
  /\ Len(Iteration(M("b"))) = 2

\* C16: a.merge(b) returns with a holding the union of what a and b held and
\* b holding what both held; b.contains(x) is false for every x moved,
\* b.size() is the number of duplicates, and both are structurally sound.
C16_Merge ==
  [][CalledOn("merge", "a") =>
       /\ status' = "ok" /\ last'.err = "none"
       /\ Range(Iteration(AfterOf("a"))) = present["a"] \cup present["b"]
       /\ Range(Iteration(AfterOf("b"))) = present["a"] \cap present["b"]
       /\ \A x \in present["b"] \ present["a"] : ~contains(AfterOf("b"), x).ret
       /\ size(AfterOf("b")) = Cardinality(present["a"] \cap present["b"])
       /\ size(AfterOf("a")) = Cardinality(present["a"] \cup present["b"])
       /\ Structure(AfterOf("a"))
       /\ Structure(AfterOf("b"))]_vars

\* What holds of merge when every element it moves is a one-level node of b.
C16_MergeFlat ==
  [][(CalledOn("merge", "a") /\ sl["b"].current_max_level = 1) =>
       /\ status' = "ok" /\ last'.err = "none"
       /\ Range(Iteration(AfterOf("a"))) = present["a"] \cup present["b"]
       /\ Range(Iteration(AfterOf("b"))) = present["a"] \cap present["b"]
       /\ \A x \in present["b"] \ present["a"] : ~contains(AfterOf("b"), x).ret
       /\ size(AfterOf("b")) = Cardinality(present["a"] \cap present["b"])
       /\ size(AfterOf("a")) = Cardinality(present["a"] \cup present["b"])
       /\ Structure(AfterOf("a"))
       /\ Structure(AfterOf("b"))]_vars

\* The levels of container m, each as the sequence of its values.
Levels(m) == [lvl \in 1..max_lvl |-> IF lvl <= m.cml THEN LevelSeq(m, lvl) ELSE <<>>]

\* C17: swap(a, b) gives a the elements, size and levels b had and b those
\* a had, and a second swap gives both back what they had.
C17_Swap ==
  [][CalledOn("swap", "a") =>
       /\ status' = "ok"
       /\ Iteration(AfterOf("a")) = Iteration(M("b"))
       /\ Iteration(AfterOf("b")) = Iteration(M("a"))
       /\ size(AfterOf("a")) = size(M("b"))
       /\ size(AfterOf("b")) = size(M("a"))
       /\ AfterOf("a").cml = M("b").cml
       /\ AfterOf("b").cml = M("a").cml
       /\ Levels(AfterOf("a")) = Levels(M("b"))
       /\ Levels(AfterOf("b")) = Levels(M("a"))
       /\ swap(swap(sl["a"], sl["b"]).a, swap(sl["a"], sl["b"]).b) = [a |-> sl["a"], b |-> sl["b"]]]_vars

\* Two containers of different size, one of them with two levels, have
\* been swapped.
C17_Swapped ==
  /\ status = "ok"
  /\ last.op = "swap"
  /\ sl["a"].size = 2 /\ sl["b"].size = 1
  /\ sl["a"].current_max_level = 2 /\ sl["b"].current_max_level = 1

\* s is lexicographically smaller than t, a proper prefix being smaller.
RECURSIVE LexLess(_, _)
LexLess(s, t) ==
  IF t = <<>> THEN FALSE
  ELSE IF s = <<>> THEN TRUE
  ELSE IF Head(s) # Head(t) THEN Head(s) < Head(t)
  ELSE LexLess(Tail(s), Tail(t))

\* C18: a == b iff a and b have the same size and the same iteration
\* sequence; a < b iff a's sequence is lexicographically smaller than b's;
\* !=, <=, > and >= are the derived relations, and exactly one of a < b,
\* a == b, a > b holds.
C18_Comparisons ==
  (Sound /\ Constructed("a") /\ Constructed("b")) =>
    \A p \in {<<"a", "b">>, <<"b", "a">>} :
      LET l == M(p[1])
          r == M(p[2])
      IN (equal(l, r).f = NoFault /\ less(l, r).f = NoFault /\ less(r, l).f = NoFault) =>
         /\ equal(l, r).ret <=> (size(l) = size(r) /\ Iteration(l) = Iteration(r))
         /\ less(l, r).ret <=> LexLess(Iteration(l), Iteration(r))
         /\ notEqual(l, r).ret <=> ~equal(l, r).ret
         /\ greater(l, r).ret <=> less(r, l).ret
         /\ lessEqual(l, r).ret <=> (less(l, r).ret \/ equal(l, r).ret)
         /\ greaterEqual(l, r).ret <=> (greater(l, r).ret \/ equal(l, r).ret)
         /\ Cardinality({i \in 1..3 : <<less(l, r).ret, equal(l, r).ret,
                                        greater(l, r).ret>>[i]}) = 1

\* C19: after any sequence of inserts and erases by value, of negative, zero
\* and positive integers, validate() returns true.
C19_ValidateTrue ==
  status = "ok" => validate(Now).ok

\* The same while no negative value is in the container.
C19_ValidateNonNegative ==
  (status = "ok" /\ \A x \in present["a"] : x >= 0) => validate(Now).ok

\* C20: when an allocation fails during insert(v), the insert fails and the
\* container is as before the call: the same levels under the same head and
\* tail, as many as current_max_level says, the same size, and no node of v
\* on any level.
C20_InsertAtomic ==
  [][(CalledOn("insert", "a") /\ last'.err = "bad_alloc" /\ Sound) =>
       /\ status' = "ok"
       /\ After.cml = Now.cml
       /\ Height(heap', After.head, Fuel) = Height(heap, Now.head, Fuel)
       /\ Height(heap', After.head, Fuel) = After.cml
       /\ Height(heap', After.tail, Fuel) = After.cml
       /\ size(After) = size(Now)
       /\ Levels(After) = Levels(Now)
       /\ \A n \in Nodes :
            (n \in live' /\ heap'[n].data = last'.arg /\ last'.arg # 0) =>
               \A x \in Nodes : n \notin {heap'[x].left, heap'[x].right, heap'[x].down}]_vars

\* The same for a failure of the very first allocation of the call.
C20_FirstAllocation ==
  [][(CalledOn("insert", "a") /\ last'.err = "bad_alloc" /\ last'.arg2 = 1 /\ Sound) =>
       /\ status' = "ok"
       /\ After.cml = Now.cml
       /\ Height(heap', After.head, Fuel) = Height(heap, Now.head, Fuel)
       /\ size(After) = size(Now)
       /\ Levels(After) = Levels(Now)]_vars

\* C21: the level an insert into a container draws is the level the
\* generator gives when it serves that container alone: inserts into another
\* container, before it or at the same time, do not change it.
C21_LevelsIndependent ==
  \A c \in Lists : rng.pc[c] = "drawn" => rng.level[c] = rng.expect[c]

\* The same while no other container has entered random_level().
C21_AloneInProgram ==
  \A c \in Lists :
    (rng.pc[c] = "drawn" /\ rng.pc[Other(c)] = "idle" /\ rng.draws[Other(c)] = 0) =>
       rng.level[c] = rng.expect[c]

\* C22: random_level() never leaves [1, MAX_LVL]; so current_max_level of
\* every container stays in [1, MAX_LVL], and the levels insert indexes its
\* update vector with, 1 .. max(level, current_max_level), are inside its
\* MAX_LVL + 1 entries.
C22_LevelsInRange ==
  status = "ok" =>
    \A c \in Lists :
      /\ rng.level[c] \in 1..max_lvl
      /\ Constructed(c) => sl[c].current_max_level \in 1..max_lvl
      /\ rng.pc[c] = "drawn" =>
            \A l \in 1..(IF rng.level[c] > sl[c].current_max_level
                        THEN rng.level[c] ELSE sl[c].current_max_level) :
               l < max_lvl + 1

\* A draw stopped by the cap has been inserted: the container is MAX_LVL high.
C22_AtCap ==
  /\ status = "ok"
  /\ last.op = "insert"
  /\ rng.draws[last.obj] > 0
  /\ sl[last.obj].current_max_level = max_lvl
  /\ sl[last.obj].size > 0

\* C23: every public operation called on a reachable container comes to an
\* end: it returns or throws, and neither runs forever nor ends the process.
C23_Terminates == [][Sound => status' = "ok"]_vars

\* The same for every operation but clear(); erase(first, last) over the
\* whole container calls clear().
C23_AllButClear == [][(Sound /\ last'.op # "clear") => status' = "ok"]_vars

\* Container m is as a default constructor leaves it.
Fresh(m) ==
  /\ empty(m) = [ret |-> TRUE, f |-> NoFault]
  /\ size(m) = 0
  /\ begin(m) = end(m)
  /\ begin(m).f = NoFault
  /\ \A x \in Values : contains(m, x) = [ret |-> FALSE, f |-> NoFault]
  /\ Iteration(m) = <<>>
  /\ m.cml = 1
  /\ m.head \in m.live /\ m.tail \in m.live /\ m.head # m.tail
  /\ m.heap[m.head] = [BlankNode EXCEPT !.right = m.tail]
  /\ m.heap[m.tail] = [BlankNode EXCEPT !.left = m.head]
  /\ validate(m) = [ok |-> TRUE, f |-> NoFault]

\* C24: a container that has just been default-constructed is empty, has
\* size() 0 and begin() = end(), contains no value, has one level between a
\* head and a tail sentinel without down references, and passes validate().
C24_NewIsEmpty ==
  /\ last.op = "none" => Fresh(M("a"))
  /\ (status = "ok" /\ last.op = "construct") => Fresh(M(last.obj))

\* A second container has been constructed while the first holds elements.
C24_Constructed ==
  /\ status = "ok"
  /\ last.op = "construct" /\ last.obj = "b"
  /\ size(M("a")) > 0
  /\ Fresh(M("b"))

\* The containers that exist.
Built == {c \in Lists : Constructed(c)}

\* Every real node above level 1 of m points down to a live node of the
\* level below that holds the same value.
DownLinked(m) ==
  \A lvl \in 2..max_lvl :
    lvl <= m.cml =>
      \A n \in Range(LevelNodes(m, lvl)) :
        /\ m.heap[n].down \in m.live
        /\ m.heap[n].down \in Range(LevelNodes(m, lvl - 1))
        /\ m.heap[m.heap[n].down].data = m.heap[n].data

\* C25: in every reachable state every real node of a level k > 1 has a down
\* reference to a live node of level k - 1 with the same value, so that the
\* values of level k are among those of level k - 1.
C25_DownLinked ==
  Sound =>
    \A c \in Built :
      /\ DownLinked(M(c))
      /\ \A lvl \in 2..max_lvl :
           lvl <= M(c).cml =>
             Range(LevelSeq(M(c), lvl)) \subseteq Range(LevelSeq(M(c), lvl - 1))

\* The values of every level of m, head to tail, go strictly up.
Ascending(m) ==
  \A lvl \in 1..max_lvl :
    lvl <= m.cml =>
      \A i \in 1..Len(LevelSeq(m, lvl)) :
        i > 1 => comp(LevelSeq(m, lvl)[i - 1], LevelSeq(m, lvl)[i])

\* C26: in every reachable state the real nodes of every level are in
\* strictly ascending order of their values.
C26_LevelsAscending == Sound => \A c \in Built : Ascending(M(c))

\* The nodes met from node n by right references, n first, until a null
\* reference (or Fuel steps).
RECURSIVE Row(_, _, _)
Row(h, n, fuel) ==
  IF n = Null \/ fuel = 0 THEN <<>> ELSE <<n>> \o Row(h, h[n].right, fuel - 1)

\* On every level of m the walk by right references from the level's head
\* ends at the level's tail, every step of it is undone by the left
\* reference, and nothing is left of the head or right of the tail.
RowsLinked(m) ==
  \A lvl \in 1..max_lvl :
    lvl <= m.cml =>
      LET hd == getHeadAtLevel(m, lvl).node
          tl == getTailAtLevel(m, lvl).node
          row == Row(m.heap, hd, Fuel)
      IN /\ hd # Null /\ tl # Null
         /\ Len(row) < Fuel
         /\ Range(row) \subseteq m.live
         /\ row[Len(row)] = tl
         /\ m.heap[hd].left = Null
         /\ m.heap[tl].right = Null
         /\ \A i \in 1..Len(row) : i > 1 => m.heap[row[i]].left = row[i - 1]

NoEmptyLevel(m) ==
  /\ \A lvl \in 2..max_lvl : lvl <= m.cml => LevelSeq(m, lvl) # <<>>
  /\ m.heap[m.head].right = m.tail => m.cml = 1

\* The levels of m above the first that hold the value v and nothing else.
OnlyLevels(m, v) == {lvl \in 2..max_lvl : lvl <= m.cml /\ Range(LevelSeq(m, lvl)) = {v}}

\* The step is an erase of value v from container c that returned: the
\* levels it emptied, and no others, are gone with their sentinel pairs.
Trimmed(c, v) ==
  /\ AfterOf(c).cml = M(c).cml - Cardinality(OnlyLevels(M(c), v))
  /\ \A lvl \in 2..max_lvl :
       (AfterOf(c).cml < lvl /\ lvl <= M(c).cml) => lvl \in OnlyLevels(M(c), v)
  /\ Height(heap', AfterOf(c).head, Fuel)
       = Height(heap, M(c).head, Fuel) - (M(c).cml - AfterOf(c).cml)
  /\ Height(heap', AfterOf(c).tail, Fuel)
       = Height(heap, M(c).tail, Fuel) - (M(c).cml - AfterOf(c).cml)

\* C28: after every insert or erase that returned no level above the first
\* is empty, and head->right is tail only while current_max_level is 1; an
\* erase that empties the top k levels removes those k sentinel pairs and no
\* others, and lowers current_max_level by k.
C28_NoEmptyLevels ==
  [][(last' # last /\ status' = "ok" /\ survived' = 0 /\ last'.err = "none"
        /\ last'.op \in {"insert", "erase", "erase_iterator"}) =>
       /\ NoEmptyLevel(AfterOf(last'.obj))
       /\ (last'.op = "erase" /\ last'.ret) => Trimmed(last'.obj, last'.arg)]_vars

\* The sentinels of m: from head and from tail the down references lead
\* through current_max_level live nodes each, the sentinel of level l has the
\* sentinel of level l - 1 below it (none below level 1), and the head and
\* the tail that getHeadAtLevel(l) and getTailAtLevel(l) return bound one row.
SentinelChains(m) ==
  /\ Height(m.heap, m.head, Fuel) = m.cml
  /\ Height(m.heap, m.tail, Fuel) = m.cml
  /\ \A lvl \in 1..max_lvl :
       lvl <= m.cml =>
         LET hd == getHeadAtLevel(m, lvl).node
             tl == getTailAtLevel(m, lvl).node
         IN /\ hd \in m.live /\ tl \in m.live
            /\ m.heap[hd].down = getHeadAtLevel(m, lvl - 1).node
            /\ m.heap[tl].down = getTailAtLevel(m, lvl - 1).node
            /\ m.heap[hd].left = Null
            /\ m.heap[tl].right = Null
            /\ Height(m.heap, hd, Fuel) = lvl
            /\ Height(m.heap, tl, Fuel) = lvl
            /\ tl \in Range(Row(m.heap, hd, Fuel))

\* C29: in every reachable state the chain of down references from head has
\* current_max_level members, and so has the chain from tail; the sentinels
\* of level k point down to those of level k - 1, those of level 1 point down
\* to nothing; getHeadAtLevel(l) and getTailAtLevel(l) return the sentinels
\* of level l.
C29_SentinelChains == Sound => \A c \in Built : SentinelChains(M(c))

\* The number of leading elements of seq that come before v.
Before(seq, v) ==
  Cardinality({i \in 1..Len(seq) : \A j \in 1..i : comp(seq[j], v)})

\* seq with v put right of the last of its leading elements that precede v.
Spliced(seq, v) ==
  SubSeq(seq, 1, Before(seq, v)) \o <<v>> \o SubSeq(seq, Before(seq, v) + 1, Len(seq))

\* The nodes of level lvl of m that hold v.
NodesOf(m, lvl, v) == {n \in Range(LevelNodes(m, lvl)) : m.heap[n].data = v}

\* The step is an insert of v with level L into container c that returned
\* {it, true}.
Towered(c, v, L) ==
  /\ AfterOf(c).cml = IF L > M(c).cml THEN L ELSE M(c).cml
  /\ Cardinality(live') = Cardinality(live) + InsertNeeds(M(c), L)
  /\ \A lvl \in 1..max_lvl :
       /\ (lvl <= L /\ lvl <= M(c).cml) =>
             LevelSeq(AfterOf(c), lvl) = Spliced(LevelSeq(M(c), lvl), v)
       /\ (lvl <= L /\ lvl > M(c).cml) => LevelSeq(AfterOf(c), lvl) = <<v>>
       /\ (lvl > L /\ lvl <= M(c).cml) =>
             LevelSeq(AfterOf(c), lvl) = LevelSeq(M(c), lvl)
       /\ lvl <= L => Cardinality(NodesOf(AfterOf(c), lvl, v)) = 1
       /\ (lvl > L /\ lvl <= AfterOf(c).cml) => NodesOf(AfterOf(c), lvl, v) = {}
       /\ \A n \in NodesOf(AfterOf(c), lvl, v) :
            IF lvl = 1 THEN heap'[n].down = Null
            ELSE heap'[n].down \in NodesOf(AfterOf(c), lvl - 1, v)

\* C30: an insert of a value v that is not in the container, with level L,
\* makes L nodes of v, one on each of the levels 1..L and none above, each
\* right of the last node before v on its level and each with the node of v
\* one level below as its down reference (none on level 1); after it
\* current_max_level is the larger of L and its value before.
C30_InsertTower ==
  [][(last' # last /\ status' = "ok" /\ survived' = 0 /\ last'.op = "insert"
        /\ last'.ret /\ last'.err = "none" /\ last'.level > 0) =>
       Towered(last'.obj, last'.arg, last'.level)]_vars

\* What validate() is said to test, with the sentinels' values left out: on
\* every level the right references lead from the head to the tail and each
\* is undone by the left reference, the values of the real nodes never go
\* down from left to right, and above level 1 every real node has a down
\* reference.
Consistent(m) ==
  /\ RowsLinked(m)
  /\ \A lvl \in 1..max_lvl :
       lvl <= m.cml =>
         /\ \A i \in 1..Len(LevelSeq(m, lvl)) :
              i > 1 => ~comp(LevelSeq(m, lvl)[i], LevelSeq(m, lvl)[i - 1])
         /\ lvl > 1 => \A n \in Range(LevelNodes(m, lvl)) : m.heap[n].down # Null

\* C31: validate() returns true exactly when on every level 1 ..
\* current_max_level the horizontal links are mutually consistent, the real
\* nodes are in non-decreasing order and, above level 1, every real node has
\* a down reference; the values held by the head and tail sentinels have no
\* part in the result.
C31_ValidateExact ==
  Sound => \A c \in Built : validate(M(c)).ok <=> Consistent(M(c))

\* The same for containers whose values are not below the value T() that
\* the head sentinels hold.
C31_ValidateAboveHead ==
  Sound =>
    \A c \in Built :
      (\A lvl \in 1..max_lvl :
         lvl <= M(c).cml =>
           \A x \in Range(LevelSeq(M(c), lvl)) : ~comp(x, BlankNode.data)) =>
        (validate(M(c)).ok <=> Consistent(M(c)))

\* The place of the iterator `it` in the iteration of m: that of its node,
\* and one past the last for every other location (end() is one).
PlaceOf(m, it) ==
  IF it \in Range(IterationNodes(m))
  THEN CHOOSE i \in 1..Len(IterationNodes(m)) : IterationNodes(m)[i] = it
  ELSE Len(IterationNodes(m)) + 1

\* The values that the iterators of [first, last) denote in m.
InRange(m, first, last_) ==
  {Iteration(m)[i] : i \in PlaceOf(m, first)..(PlaceOf(m, last_) - 1)}

\* The step is erase(first, last) on container a for a range that is not
\* empty, and it returned.
RangeErased(first, last_) ==
  /\ Iteration(After)
       = SubSeq(Iteration(Now), 1, PlaceOf(Now, first) - 1)
         \o SubSeq(Iteration(Now), PlaceOf(Now, last_), Len(Iteration(Now)))
  /\ \A v \in Values :
       /\ contains(After, v).f = NoFault
       /\ contains(After, v).ret
            <=> (v \in Range(Iteration(Now)) /\ v \notin InRange(Now, first, last_))
  /\ size(After) = size(Now) - Cardinality(InRange(Now, first, last_))
  /\ IF last_ = end(Now).node THEN last'.it = end(After).node
     ELSE /\ last'.it \in Range(IterationNodes(After))
          /\ Deref(heap', last'.it, heap[last_].data)

\* C32: erase(first, last) for a valid range over live elements that is not
\* the whole container removes the elements of [first, last) and no others,
\* makes size() less by their number and returns an iterator equal to last.
C32_EraseRange ==
  [][(Called("erase_range") /\ last'.err = "none" /\ last'.arg # Null
        /\ ~(last'.arg = begin(Now).node /\ last'.arg2 = end(Now).node)) =>
       RangeErased(last'.arg, last'.arg2)]_vars

\* The same without contains(): what the iteration, size() and the returned
\* iterator show.
C32_RangeIterated ==
  [][(Called("erase_range") /\ last'.err = "none" /\ last'.arg # Null
        /\ ~(last'.arg = begin(Now).node /\ last'.arg2 = end(Now).node)) =>
       /\ Iteration(After)
            = SubSeq(Iteration(Now), 1, PlaceOf(Now, last'.arg) - 1)
              \o SubSeq(Iteration(Now), PlaceOf(Now, last'.arg2), Len(Iteration(Now)))
       /\ size(After) = size(Now) - Cardinality(InRange(Now, last'.arg, last'.arg2))
       /\ IF last'.arg2 = end(Now).node THEN last'.it = end(After).node
          ELSE /\ last'.it \in Range(IterationNodes(After))
               /\ Deref(heap', last'.it, heap[last'.arg2].data)]_vars

\* The references of m that lead to a destroyed node: head or tail, or a
\* left, right or down reference of a node reachable from head.
DeadLinks(m) ==
  (({m.head, m.tail}
    \cup UNION {{m.heap[n].left, m.heap[n].right, m.heap[n].down} : n \in Owned(m)})
   \cap Nodes) \ m.live

\* C33: after every completed public operation no left, right or down
\* reference of a node reachable from head leads to a destroyed node, and no
\* operation reads or destroys a node that is already destroyed.
C33_MemorySafe ==
  [][/\ last'.fault \notin {Stale, StaleLoop}
     /\ survived' = survived
     /\ status' = "ok" => \A c \in Lists : sl'[c].head # Null => DeadLinks(AfterOf(c)) = {}]_vars

\* The part of C33 about the references, as a state invariant: it fails
\* without clear() as well.
C33_NoDeadLinks ==
  status = "ok" => \A c \in Built : DeadLinks(M(c)) = {}

\* What dereferencing the location n of container m gives: nothing at end().
Value(m, n) == IF n = Null \/ n = end(m).node THEN <<>> ELSE <<m.heap[n].data>>

\* What a caller sees of erase(find(v)): the error raised, and size() and the
\* iteration afterwards.
EraseFound(m, v) ==
  <<eraseIt(m, find(m, v).node).err,
    size(eraseIt(m, find(m, v).node).m),
    Iteration(eraseIt(m, find(m, v).node).m)>>

\* What a caller sees of erase(v).
EraseValue(m, v) == <<erase(m, v).ret, size(erase(m, v).m), Iteration(erase(m, v).m)>>

\* What the calls that take a value show of container m.
SeenByValue(m) ==
  [size |-> size(m),
   iteration |-> Iteration(m),
   contains |-> [v \in Values |-> contains(m, v).ret],
   find |-> [v \in Values |-> Value(m, find(m, v).node)],
   lower |-> [v \in Values |-> Value(m, lower_bound(m, v).node)],
   upper |-> [v \in Values |-> Value(m, upper_bound(m, v).node)],
   erase |-> [v \in Values |-> EraseValue(m, v)]]

\* The same together with erase(find(v)).
Seen(m) == <<SeenByValue(m), [v \in Values |-> EraseFound(m, v)]>>

\* The container a after insert(v) when random_level() returns level.
Inserted(v, level) == insert(Now, v, level).m

\* C34: what a caller observes does not depend on the levels drawn: two runs
\* of the same calls that differ only in the level of an insert return the
\* same booleans, values and errors, the same size() and the same iteration.
\* Here the two runs share every call up to an insert(v), draw the levels L1
\* and L2 for it, and go on with the same call.
C34_LevelsUnseen ==
  Sound =>
    \A v \in Values : \A L1 \in random_level, L2 \in random_level :
      (Room >= InsertNeeds(Now, L1) /\ Room >= InsertNeeds(Now, L2)) =>
        Seen(Inserted(v, L1)) = Seen(Inserted(v, L2))

\* The same for the calls that take a value: insert, erase(value), find,
\* contains, lower_bound and upper_bound.
C34_ValueCallsUnseen ==
  Sound =>
    \A v \in Values : \A L1 \in random_level, L2 \in random_level :
      (Room >= InsertNeeds(Now, L1) /\ Room >= InsertNeeds(Now, L2)) =>
        SeenByValue(Inserted(v, L1)) = SeenByValue(Inserted(v, L2))

\* size() of m is the number of real nodes of its level 1.
SizeCounts(m) == size(m) = Len(LevelSeq(m, 1))

\* The step is a = std::move(b) on two containers, and it returned.
Moved(a, b) ==
  /\ Iteration(AfterOf(a)) = Iteration(M(b))
  /\ size(AfterOf(a)) = size(M(b))
  /\ Levels(AfterOf(a)) = Levels(M(b))
  /\ Iteration(AfterOf(b)) = <<>>
  /\ empty(AfterOf(b)).ret
  /\ size(AfterOf(b)) = 0
  /\ AfterOf(b).cml = 1
  /\ heap'[AfterOf(b).head].right = AfterOf(b).tail
  /\ heap'[AfterOf(b).head].down = Null
  /\ SizeCounts(AfterOf(a)) /\ SizeCounts(AfterOf(b))

\* The step is a = std::move(a), and it returned.
SelfMoved(a) ==
  /\ Iteration(AfterOf(a)) = Iteration(M(a))
  /\ size(AfterOf(a)) = size(M(a))
  /\ AfterOf(a).cml = M(a).cml
  /\ Levels(AfterOf(a)) = Levels(M(a))
  /\ SizeCounts(AfterOf(a))

\* C35: a = std::move(b) on two containers leaves a equal to what b was and
\* b empty, with size() 0 and one empty level; a = std::move(a) leaves the
\* elements, the size and the levels of a as they were; after both size() is
\* the number of real nodes of level 1.
C35_MoveAssign ==
  [][/\ (last' # last /\ last'.op = "move_assign") =>
          status' = "ok" /\ Moved(last'.obj, Other(last'.obj))
     /\ (last' # last /\ last'.op = "move_assign_self") =>
          status' = "ok" /\ SelfMoved(last'.obj)]_vars

\* The case of two containers, in the builds in which the call returns.
C35_Distinct ==
  [][(last' # last /\ last'.op = "move_assign" /\ status' = "ok") =>
       Moved(last'.obj, Other(last'.obj))]_vars

\* The case of one container, in the builds in which the call returns.
C35_Self ==
  [][(last' # last /\ last'.op = "move_assign_self" /\ status' = "ok") =>
       SelfMoved(last'.obj)]_vars

\* empty(), size() == 0 and begin() == end() say the same of container m.
EmptinessAgrees(m) ==
  /\ empty(m).ret <=> size(m) = 0
  /\ size(m) = 0 <=> begin(m).node = end(m).node

\* C36: in every reachable state empty() is true iff size() is 0 iff
\* begin() == end().
C36_EmptinessAgrees == Sound => \A c \in Built : EmptinessAgrees(M(c))

\* The containers that reach node n from their head.
Owners(n) == {c \in Built : n \in Owned(M(c))}

\* The same after the step.
OwnersAfter(n) == {c \in Lists : sl'[c].head # Null /\ n \in Owned(AfterOf(c))}

\* C37: after every completed public operation every node that is allocated
\* and not destroyed is reachable by right and down references from the head
\* of exactly one container (none has leaked, none is shared), and no
\* operation destroys a node twice (here: the rows that clear() deletes
\* again).
C37_NodesOwned ==
  [][last' # last =>
       /\ last'.fault # StaleLoop
       /\ status' = "ok" => \A n \in live' : Cardinality(OwnersAfter(n)) = 1]_vars

\* The part of C37 about leaked and shared nodes, as a state invariant.
C37_NoneLeaked ==
  status = "ok" => \A n \in live : Cardinality(Owners(n)) = 1
====
